---- MODULE Spec2Model ----
(***************************************************************************)
(* Order State Engine of farmactiva_pts (app/routers/admin_pedidos.py,     *)
(* app/routers/admin_pedido_estados.py): the status catalog, the           *)
(* transition table, the orders, the status history and the notes, and     *)
(* the handlers that read and write them.                                  *)
(*                                                                         *)
(* The relational store is modelled by its committed contents.  A request  *)
(* works in a session (app/database.py: autocommit=False) whose writes     *)
(* stay in tx[s] until db.commit() applies them or db.rollback() drops     *)
(* them.  Every db.execute may fail (storage failure).  A failure that     *)
(* the handler swallows leaves the session's transaction either usable     *)
(* (statement-level rollback) or failed ("tx fallida", database.py:33;     *)
(* "sesion abortada", admin_pedidos.py:153): in a failed transaction       *)
(* every later statement fails and COMMIT persists nothing and raises      *)
(* nothing.  Both outcomes are kept as a nondeterministic choice.          *)
(***************************************************************************)
EXTENDS Integers, Sequences, FiniteSets, TLC

\* ------------------------------------------------------------------ bounds
MaxPedidos == 1            \* orders that can be created
MaxCambios == 2            \* committed history rows, all orders together
MaxPrecios == 3            \* rows of the price table
MaxCentavos == 1650        \* prices with a fraction: up to this many hundredths
MaxPesos == 3100           \* whole prices: up to this many pesos
MaxAsignaciones == 2       \* committed rows of pedido_asignaciones

\* ------------------------------------------------------- program constants
MaxLenCodigo == 64         \* len(nuevo_estado) > 64 is rejected
RECHAZADO_QF == "RECHAZADO_QF"
NULL == "<NULL>"           \* Python None / SQL NULL
NoId == 0                  \* a NULL id_estado (scalar() of an empty result)

\* --------------------------------------------------------- value universes
EstadoIds == 1 .. 3
CodigoLargo == "ESTADO_CON_UN_CODIGO_DEMASIADO_LARGO_PARA_LA_COLUMNA_DE_64_CARACTERES"
\* codes a request can carry: the catalog codes, a lower-case spelling that
\* the catalog lacks, the empty string and an over-long code
CodigosSolicitud == {"NUEVO", RECHAZADO_QF, "ENTREGADO", "rechazado_qf", "", CodigoLargo}
\* <<nota_cliente, nota_rol, destinatario_rol>> as submitted with the request
NotasForm == {<<NULL, NULL, NULL>>, <<"  ", NULL, NULL>>, <<"texto", NULL, "QF">>}
PedidoIds == 1 .. MaxPedidos
IdsSolicitud == 1 .. (MaxPedidos + 1)   \* the last id never exists
Sesiones == {1, 2}
\* the matrix forms an administrator can submit: the checked keys t_<o>_<d>
MatricesForm == {{}, {<<1, 1>>, <<1, 2>>, <<1, 3>>, <<2, 1>>}}
\* <<id_estado, codigo, activo, es_final>> an administrator can submit in the
\* edit form of a catalog row
EstadosForm == {<<3, "ENTREGADO", TRUE, TRUE>>, <<3, "ENTREGADO", TRUE, FALSE>>,
                <<3, "ENTREGADO", FALSE, TRUE>>, <<3, "NUEVO", TRUE, FALSE>>}
Clases == {"estado", "cliente", "rol", "rechazo"}   \* notes a call can insert

VARIABLES
    estados,        \* public.pedido_estados: id_estado -> row
    transiciones,   \* public.pedido_estado_transiciones: <<origen,destino>> -> row state
    pedidos,        \* public.pedidos: id_pedido -> row, or NoPedido
    historial,      \* public.pedido_estado_historial: id_pedido -> rows in insertion order
    notas,          \* public.pedido_notas: id_pedido -> number of rows of each class
    pc,             \* per session: position of the request being served
    req,            \* per session: inputs and reads of the request
    tx,             \* per session: uncommitted writes of the session
    resp,           \* per session: JSON response of the finished request
    app_parametros, \* public.app_parametros: valor of clave "pedido.estado_inicial"
    precios,        \* public.precios: committed rows in insertion order (index = id_precio)
    pub,            \* per session: the _publicar_precio call of its transaction
    redondeo,       \* a call of _aplicar_redondeo and the call on its own result
    resolucion,     \* a call of resolver_precio: what it reads and what it returns
    recalc,         \* a call of admin_precios_recalcular: its inputs and its response
    asignaciones,   \* public.pedido_asignaciones: committed rows (index = id_asignacion)
    resp_tr         \* the response of the last assignment or carrier request

vars == <<estados, transiciones, pedidos, historial, notas, pc, req, tx, resp,
          app_parametros, precios, pub, redondeo, resolucion, recalc,
          asignaciones, resp_tr>>
\* the state outside the order state engine's own tables and sessions
otros == <<app_parametros, precios, pub, redondeo, resolucion, recalc,
           asignaciones, resp_tr>>
\* the state outside the price table and its publications
pedidosVars == <<estados, transiciones, pedidos, historial, notas, pc, req, tx, resp,
                 app_parametros, redondeo, resolucion, recalc, asignaciones,
                 resp_tr>>
bd == <<estados, transiciones, pedidos, historial, notas>>
\* the tables and the sessions: what a call of a pure price function leaves alone
sistema == <<estados, transiciones, pedidos, historial, notas, pc, req, tx, resp,
             app_parametros, precios, pub, recalc, asignaciones, resp_tr>>

NoPedido == [existe |-> FALSE, estado_codigo |-> NULL, archivado |-> FALSE]
ReqNulo == [id_pedido |-> 0, nuevo_estado |-> NULL, estado_actual |-> NULL,
            falla_trans |-> FALSE, id_origen |-> NoId, id_destino |-> NoId,
            nota_cliente |-> FALSE, nota_rol |-> FALSE]
TxNula == [upd |-> FALSE, hist |-> FALSE, notas |-> {}, arch |-> FALSE,
           abortada |-> FALSE]

\* str.upper() / SQL UPPER() on the code universe: only "rechazado_qf" has
\* lower-case letters
Upper(c) == IF c = "rechazado_qf" THEN RECHAZADO_QF ELSE c

\* _clean: strip, and None when nothing is left
Clean(s) == IF s = NULL \/ s = "" \/ s = "  " THEN NULL ELSE s

\* SELECT id_estado FROM pedido_estados WHERE codigo = :c  (exact match)
IdEstado(c) ==
    IF \E i \in EstadoIds : estados[i].codigo = c
    THEN CHOOSE i \in EstadoIds : estados[i].codigo = c
    ELSE NoId

\* SELECT estado_codigo FROM pedidos WHERE id_pedido = :id  (.scalar())
EstadoActual(id) ==
    IF id \in PedidoIds /\ pedidos[id].existe THEN pedidos[id].estado_codigo ELSE NULL

\* _next_states_for without the early return of lines 1111-1113: the variant
\* against which the dead-end property of the function (C3) is tested
NextStatesForSinCorte(cur, falla) ==
    IF cur = NULL \/ cur = "" THEN {}
    ELSE IF ~falla
    THEN {estados[p[2]].codigo : p \in {q \in EstadoIds \X EstadoIds :
              /\ transiciones[q] = "activa"
              /\ Upper(estados[q[1]].codigo) = Upper(cur)
              /\ estados[q[2]].activo}}
    ELSE {estados[i].codigo : i \in {j \in EstadoIds :
              estados[j].activo /\ Upper(estados[j].codigo) # Upper(cur)}}

\* _next_states_for: the codes of the rows it returns.  falla = the
\* transition query raised and the fallback query answered.
NextStatesFor(cur, falla) ==
    IF cur = NULL \/ cur = "" THEN {}
    ELSE IF Upper(cur) = RECHAZADO_QF THEN {}
    ELSE IF ~falla
    THEN {estados[p[2]].codigo : p \in {q \in EstadoIds \X EstadoIds :
              /\ transiciones[q] = "activa"
              /\ Upper(estados[q[1]].codigo) = Upper(cur)
              /\ estados[q[2]].activo}}
    ELSE {estados[i].codigo : i \in {j \in EstadoIds :
              estados[j].activo /\ Upper(estados[j].codigo) # Upper(cur)}}

\* a validation that omits the transition check of lines 652-655: the
\* variant against which the gating property (C1) is tested
ValidarSinTransicion(nuevo, cur, falla) ==
    IF nuevo = "" \/ Len(nuevo) > MaxLenCodigo THEN "estado invalido"
    ELSE IF IdEstado(nuevo) = NoId THEN "Estado destino no existe en catalogo"
    ELSE "ok"

\* the validation of admin_pedidos_cambiar_estado, in the order of the code:
\* the error of the JSON response, or "ok" when the writes may start
Validar(nuevo, cur, falla) ==
    IF nuevo = "" \/ Len(nuevo) > MaxLenCodigo THEN "estado invalido"
    ELSE IF NextStatesFor(cur, falla) # {} /\ nuevo \notin NextStatesFor(cur, falla)
    THEN "Transicion no permitida"
    ELSE IF IdEstado(nuevo) = NoId THEN "Estado destino no existe en catalogo"
    ELSE "ok"

\* <<id_producto, id_lista>> pairs and gross prices a publication can carry
ParesPrecio == {<<1, 1>>, <<1, 2>>}
PreciosBrutos == {990, 1000}
PubNula == [paso |-> "libre", par |-> <<0, 0>>, precio_bruto |-> 0,
            vistas |-> {}, cerradas |-> {}]

\* no call of the price functions is in progress
RedondeoNulo == [paso |-> "libre"]
ResolucionNula == [paso |-> "libre"]
RecalcNulo == [paso |-> "libre"]
RespTrNula == [handler |-> NULL, status |-> 0]

\* the tables and the sessions after the application has started, the
\* price table aside
InitBase ==
    /\ estados = [i \in EstadoIds |->
                    [codigo |-> CASE i = 1 -> "NUEVO" [] i = 2 -> RECHAZADO_QF
                                  [] OTHER -> "ENTREGADO",
                     activo |-> TRUE, es_final |-> FALSE]]
    /\ transiciones = [p \in EstadoIds \X EstadoIds |-> "ausente"]
    /\ pedidos = [o \in PedidoIds |-> NoPedido]
    /\ historial = [o \in IdsSolicitud |-> << >>]
    /\ notas = [o \in IdsSolicitud |-> [k \in Clases |-> 0]]
    /\ pc = [s \in Sesiones |-> "libre"]
    /\ req = [s \in Sesiones |-> ReqNulo]
    /\ tx = [s \in Sesiones |-> TxNula]
    /\ resp = [s \in Sesiones |-> NULL]
    /\ app_parametros = NULL
    /\ pub = [s \in Sesiones |-> PubNula]
    /\ asignaciones = << >>
    /\ resp_tr = RespTrNula

\* the same, with an empty price table and no recalculation under way
InitTablas ==
    /\ InitBase
    /\ precios = << >>
    /\ recalc = RecalcNulo

Init ==
    /\ InitTablas
    /\ redondeo = RedondeoNulo
    /\ resolucion = ResolucionNula

\* ------------------------------------------------- catalog administration
\* a save that keeps the checked pairs with origen = destino: the variant
\* against which the result of transiciones_save (C29) is tested
TransicionesSaveConBucles(form) ==
    /\ transiciones' = [p \in EstadoIds \X EstadoIds |->
                           IF p \in form THEN "activa"
                           ELSE IF transiciones[p] = "activa" THEN "inactiva"
                           ELSE transiciones[p]]
    /\ UNCHANGED <<estados, pedidos, historial, notas, pc, req, tx, resp>>

\* transiciones_save: the checked pairs with origen # destino become the
\* active edges (created when missing); every other active edge is
\* switched off, never deleted
TransicionesSave(form) ==
    /\ LET selected == {p \in form : p[1] # p[2]}
       IN transiciones' = [p \in EstadoIds \X EstadoIds |->
                              IF p \in selected THEN "activa"
                              ELSE IF transiciones[p] = "activa" THEN "inactiva"
                              ELSE transiciones[p]]
    /\ UNCHANGED <<estados, pedidos, historial, notas, pc, req, tx, resp>>

\* estados_update: every field of the row is overwritten from the form; an
\* IntegrityError at commit (duplicate codigo, or an order still naming the
\* old codigo: pedidos.estado_codigo is a foreign key) rolls the edit back
EstadosUpdate(id, codigo, activo, es_final) ==
    /\ LET duplicado == \E j \in EstadoIds : j # id /\ estados[j].codigo = codigo
           en_uso == /\ codigo # estados[id].codigo
                     /\ \E o \in PedidoIds : /\ pedidos[o].existe
                                             /\ pedidos[o].estado_codigo = estados[id].codigo
       IN estados' = IF duplicado \/ en_uso THEN estados
                     ELSE [estados EXCEPT ![id] = [codigo |-> codigo, activo |-> activo,
                                                   es_final |-> es_final]]
    /\ UNCHANGED <<transiciones, pedidos, historial, notas, pc, req, tx, resp>>

\* admin_pedidos_new_submit, the part that decides the status of the new
\* order: "pendiente_pago" when the catalog has it, else "NUEVO"; the insert
\* is refused (IntegrityError, rollback) when the catalog lacks the code
EstadoInicial == IF IdEstado("pendiente_pago") # NoId THEN "pendiente_pago" ELSE "NUEVO"

CrearPedido ==
    \E o \in PedidoIds :
        /\ ~pedidos[o].existe
        /\ \A q \in PedidoIds : q < o => pedidos[q].existe
        /\ pedidos' = IF IdEstado(EstadoInicial) = NoId THEN pedidos
                       ELSE [pedidos EXCEPT ![o] = [existe |-> TRUE,
                                                    estado_codigo |-> EstadoInicial,
                                                    archivado |-> FALSE]]
        /\ UNCHANGED <<estados, transiciones, historial, notas, pc, req, tx, resp>>

\* ------------------------------------------ admin_pedidos_cambiar_estado
Existe(id) == id \in PedidoIds /\ pedidos[id].existe

RECURSIVE Filas(_)
Filas(ids) == IF ids = {} THEN 0
              ELSE LET o == CHOOSE x \in ids : TRUE
                   IN Len(historial[o]) + Filas(ids \ {o})
Cambios == Filas(IdsSolicitud)

\* what a swallowed statement failure leaves behind: the session's
\* transaction stays usable, or becomes a failed transaction, whose writes
\* are lost (the row lock of its UPDATE stays until the session ends it)
TrasFallo(t) == {t, [TxNula EXCEPT !.upd = t.upd, !.abortada = TRUE]}

\* db.rollback() followed by the 500 response of the outer except
Revertir(s) ==
    /\ tx' = [tx EXCEPT ![s] = TxNula]
    /\ resp' = [resp EXCEPT ![s] = "error500"]
    /\ pc' = [pc EXCEPT ![s] = "fin"]
    /\ UNCHANGED <<bd, req>>

\* a refusal that first records the attempt as an internal note of the
\* order: the variant against which the frame of a refusal (C5) is tested
RechazarConNota(s, r, error) ==
    /\ req' = [req EXCEPT ![s] = r]
    /\ resp' = [resp EXCEPT ![s] = error]
    /\ pc' = [pc EXCEPT ![s] = "fin"]
    /\ notas' = [notas EXCEPT ![r.id_pedido].estado = 1]
    /\ UNCHANGED <<estados, transiciones, pedidos, historial, tx>>

\* the JSONResponse of lines 642, 655 and 663, and an exception that leaves
\* the handler before line 682: the request ends and nothing was written
Rechazar(s, r, error) ==
    /\ req' = [req EXCEPT ![s] = r]
    /\ resp' = [resp EXCEPT ![s] = error]
    /\ pc' = [pc EXCEPT ![s] = "fin"]
    /\ UNCHANGED <<bd, tx>>

\* lines 636-680: clean the notes, validate, look the catalog ids up
Solicitar(s, id, nuevo, nota_cliente, nota_rol, destinatario_rol, falla) ==
    /\ pc[s] = "libre"
    /\ Cambios < MaxCambios
    /\ LET cur == EstadoActual(id)
           consulta == /\ nuevo # "" /\ Len(nuevo) <= MaxLenCodigo
                       /\ cur # NULL /\ cur # "" /\ Upper(cur) # RECHAZADO_QF
           v == Validar(nuevo, cur, falla)
           \* what the handler has read when it answers an error
           leido == [ReqNulo EXCEPT !.id_pedido = id, !.nuevo_estado = nuevo,
                                    !.estado_actual = IF v = "estado invalido" THEN NULL
                                                      ELSE cur,
                                    !.falla_trans = falla]
       IN /\ falla => consulta        \* the transition query can fail only when it runs
          /\ \/ /\ v = "ok"
                /\ req' = [req EXCEPT ![s] =
                      [id_pedido |-> id, nuevo_estado |-> nuevo, estado_actual |-> cur,
                       falla_trans |-> falla,
                       id_origen |-> IF cur # NULL /\ cur # "" THEN IdEstado(cur) ELSE NoId,
                       id_destino |-> IdEstado(nuevo),
                       nota_cliente |-> Clean(nota_cliente) # NULL,
                       nota_rol |-> Clean(nota_rol) # NULL \/ Clean(destinatario_rol) # NULL]]
                /\ pc' = [pc EXCEPT ![s] = "upd"]
                /\ UNCHANGED <<bd, tx, resp>>
             \/ /\ v # "ok"
                /\ Rechazar(s, leido, v)
             \/ \* the fallback query of _next_states_for raises too
                /\ falla
                /\ Rechazar(s, [leido EXCEPT !.estado_actual = cur], "error no controlado")

\* lines 684-691: UPDATE pedidos SET estado_codigo.  The row is locked by an
\* uncommitted UPDATE of another session; an id without a row updates nothing
ActualizarEstado(s) ==
    /\ pc[s] = "upd"
    /\ \/ Revertir(s)
       \/ /\ \A t \in Sesiones \ {s} :
                ~(tx[t].upd /\ req[t].id_pedido = req[s].id_pedido)
          /\ tx' = [tx EXCEPT ![s].upd = Existe(req[s].id_pedido)]
          /\ req' = [req EXCEPT ![s].falla_trans = FALSE]   \* the list is not read again
          /\ pc' = [pc EXCEPT ![s] = "hist"]
          /\ UNCHANGED <<bd, resp>>

\* a history insert whose failure is swallowed like that of the optional
\* notes: the variant against which the atomicity of the status update and
\* the history row (C8) is tested
InsertarHistorialTolerante(s) ==
    /\ pc[s] = "hist"
    /\ tx' = [tx EXCEPT ![s].hist = FALSE]
    /\ pc' = [pc EXCEPT ![s] = "notas"]
    /\ UNCHANGED <<bd, req, resp>>

\* lines 694-712: INSERT INTO pedido_estado_historial.  The history tables
\* reference pedidos(id_pedido), so the insert fails for an id without a row
InsertarHistorial(s) ==
    /\ pc[s] = "hist"
    /\ \/ Revertir(s)
       \/ /\ Existe(req[s].id_pedido)
          /\ tx' = [tx EXCEPT ![s].hist = TRUE]
          /\ pc' = [pc EXCEPT ![s] = "notas"]
          /\ UNCHANGED <<bd, req, resp>>

\* lines 715-752: the optional notes, in one try block whose except swallows
\* the failure (here of the block's first insert, so that none is made).
\* pedido_notas.id_pedido is a foreign key: the insert fails for an id
\* without a row
NotasOpcionales(s) ==
    /\ pc[s] = "notas"
    /\ LET todas == {"estado"} \cup (IF req[s].nota_cliente THEN {"cliente"} ELSE {})
                              \cup (IF req[s].nota_rol THEN {"rol"} ELSE {})
       IN \/ /\ Existe(req[s].id_pedido)
             /\ tx' = [tx EXCEPT ![s].notas = todas]
          \/ \E t \in TrasFallo(tx[s]) : tx' = [tx EXCEPT ![s] = t]
    /\ pc' = [pc EXCEPT ![s] =
                 IF Upper(req[s].nuevo_estado) = RECHAZADO_QF THEN "arch" ELSE "commit"]
    /\ UNCHANGED <<bd, req, resp>>

\* one statement of the RECHAZADO_QF post-action, inside its own try/except:
\* it fails for sure in a failed transaction or when the store refuses it
\* (puede = FALSE), else it may fail; the failure is swallowed
PasoTolerante(s, puede, hecho, sigue) ==
    /\ \/ /\ ~tx[s].abortada /\ puede
          /\ tx' = [tx EXCEPT ![s] = hecho]
       \/ /\ ~tx[s].abortada
          /\ \E t \in TrasFallo(tx[s]) : tx' = [tx EXCEPT ![s] = t]
       \/ /\ tx[s].abortada
          /\ UNCHANGED tx
    /\ pc' = [pc EXCEPT ![s] = sigue]
    /\ UNCHANGED <<bd, req, resp>>

\* lines 759-768: UPDATE pedidos SET archivado = TRUE
Archivar(s) ==
    /\ pc[s] = "arch"
    /\ PasoTolerante(s, TRUE, [tx[s] EXCEPT !.arch = Existe(req[s].id_pedido)], "mail")

\* lines 771-802: read the customer's address and send the e-mail; nothing
\* is written, and a failure of send_email is swallowed as well
NotificarCliente(s) ==
    /\ pc[s] = "mail"
    /\ PasoTolerante(s, TRUE, tx[s], "notarechazo")

\* lines 805-816: the customer note that explains the rejection
NotaRechazo(s) ==
    /\ pc[s] = "notarechazo"
    /\ PasoTolerante(s, Existe(req[s].id_pedido),
                     [tx[s] EXCEPT !.notas = @ \cup {"rechazo"}], "commit")

\* a commit whose history row takes as origin the status the order holds
\* when the row is committed, not the one the request read: the variant
\* against which the stale origin of a racing request (C13) is tested
ConfirmarOrigenActual(s) ==
    /\ pc[s] = "commit"
    /\ LET t == tx[s]
           r == req[s]
           o == r.id_pedido
       IN /\ ~t.abortada /\ t.upd /\ t.hist
          /\ pedidos' = [pedidos EXCEPT ![o].estado_codigo = r.nuevo_estado]
          /\ historial' = [historial EXCEPT ![o] =
                              Append(@, [origen |-> IdEstado(EstadoActual(o)),
                                         destino |-> r.id_destino])]
          /\ tx' = [tx EXCEPT ![s] = TxNula]
          /\ resp' = [resp EXCEPT ![s] = "ok"]
          /\ pc' = [pc EXCEPT ![s] = "fin"]
          /\ UNCHANGED <<estados, transiciones, notas, req>>

\* lines 818-825: db.commit() persists the writes of the session at once,
\* or nothing when the transaction had failed; a commit that raises is
\* rolled back by the outer except
Confirmar(s) ==
    /\ pc[s] = "commit"
    /\ \/ Revertir(s)
       \/ LET t == tx[s]
              r == req[s]
              o == r.id_pedido
          IN /\ IF t.abortada THEN UNCHANGED <<pedidos, historial, notas>>
                ELSE /\ pedidos' =
                          [q \in PedidoIds |->
                             IF q # o THEN pedidos[q]
                             ELSE [pedidos[q] EXCEPT
                                     !.estado_codigo = IF t.upd THEN r.nuevo_estado ELSE @,
                                     !.archivado = IF t.arch THEN TRUE ELSE @]]
                     /\ historial' =
                          IF t.hist
                          THEN [historial EXCEPT ![o] =
                                  Append(@, [origen |-> r.id_origen, destino |-> r.id_destino])]
                          ELSE historial
                     /\ notas' = [notas EXCEPT ![o] =
                                    [k \in Clases |-> @[k] + (IF k \in t.notas THEN 1 ELSE 0)]]
             /\ tx' = [tx EXCEPT ![s] = [TxNula EXCEPT !.abortada = t.abortada]]
             /\ resp' = [resp EXCEPT ![s] = "ok"]
             /\ pc' = [pc EXCEPT ![s] = "fin"]
             /\ UNCHANGED <<estados, transiciones, req>>

\* the response is sent and get_db closes the session
Responder(s) ==
    /\ pc[s] = "fin"
    /\ pc' = [pc EXCEPT ![s] = "libre"]
    /\ req' = [req EXCEPT ![s] = ReqNulo]
    /\ tx' = [tx EXCEPT ![s] = TxNula]
    /\ resp' = [resp EXCEPT ![s] = NULL]
    /\ UNCHANGED bd

\* ------------------------------------------------------------ behaviours
Libres == \A s \in Sesiones : pc[s] = "libre"
SesSerie == {1}

GuardarTransiciones ==
    /\ Libres /\ \E form \in MatricesForm : TransicionesSave(form)
    /\ UNCHANGED otros
ActualizarCatalogo ==
    /\ Libres /\ \E f \in EstadosForm : EstadosUpdate(f[1], f[2], f[3], f[4])
    /\ UNCHANGED otros
NuevoPedido == Libres /\ CrearPedido /\ UNCHANGED otros
CambiarEstado(S) ==
    \E s \in S, id \in IdsSolicitud, nuevo \in CodigosSolicitud, n \in NotasForm,
       falla \in BOOLEAN :
        Solicitar(s, id, nuevo, n[1], n[2], n[3], falla)
Paso(S) ==
    \E s \in S : \/ ActualizarEstado(s) \/ InsertarHistorial(s) \/ NotasOpcionales(s)
                 \/ Archivar(s) \/ NotificarCliente(s) \/ NotaRechazo(s)
                 \/ Confirmar(s) \/ Responder(s)

\* requests are served one at a time
Next ==
    \/ GuardarTransiciones
    \/ ActualizarCatalogo
    \/ NuevoPedido
    \/ Libres /\ CambiarEstado(SesSerie) /\ UNCHANGED otros
    \/ Paso(SesSerie) /\ UNCHANGED otros

Spec == Init /\ [][Next]_vars

\* ------------------------------------------- the matrix of transitions
\* every selection of checked keys over five edges and one diagonal cell
MatricesAmplias ==
    SUBSET {<<1, 1>>, <<1, 2>>, <<1, 3>>, <<2, 1>>, <<2, 3>>, <<3, 1>>}

GuardarMatriz ==
    /\ \E form \in MatricesAmplias : TransicionesSave(form)
    /\ UNCHANGED otros

NextTransiciones == GuardarMatriz

SpecTransiciones == Init /\ [][NextTransiciones]_vars

\* ----------------------------------------- the initial status of an order
\* estados_param_post: the parameter is written when the code exists in the
\* catalog (no activo filter), else the request is refused with status 400
EstadosParamPost(estado_inicial) ==
    /\ app_parametros' = IF IdEstado(estado_inicial) # NoId THEN estado_inicial
                          ELSE app_parametros
    /\ UNCHANGED <<bd, pc, req, tx, resp, precios, pub, redondeo, resolucion,
                   recalc, asignaciones, resp_tr>>

\* the edit forms of the catalog used with the parameter: the third row can
\* also be renamed to and from "pendiente_pago"
EstadosFormInicial ==
    {<<3, "ENTREGADO", TRUE, FALSE>>, <<3, "ENTREGADO", FALSE, FALSE>>,
     <<3, "pendiente_pago", TRUE, FALSE>>}
CodigosParametro == {"NUEVO", RECHAZADO_QF, "ENTREGADO", "pendiente_pago", "DESCONOCIDO"}

GuardarParametro == \E c \in CodigosParametro : EstadosParamPost(c)
ActualizarCatalogoInicial ==
    /\ \E f \in EstadosFormInicial : EstadosUpdate(f[1], f[2], f[3], f[4])
    /\ UNCHANGED otros

\* catalog and parameter administration and order creation, no status change
NextInicial ==
    \/ GuardarParametro
    \/ ActualizarCatalogoInicial
    \/ GuardarTransiciones
    \/ NuevoPedido

SpecInicial == Init /\ [][NextInicial]_vars

\* ------------------------------------------------- concurrent requests
\* the codes two racing requests carry, without notes and without a failure
\* of the transition query
CodigosCarrera == {RECHAZADO_QF, "ENTREGADO"}

PedidoCarrera == 1          \* the order both sessions work on

CambiarEstadoCarrera ==
    \E s \in Sesiones, nuevo \in CodigosCarrera :
        Solicitar(s, PedidoCarrera, nuevo, NULL, NULL, NULL, FALSE)

\* requests of the two sessions interleave statement by statement
NextCarrera ==
    \/ NuevoPedido
    \/ CambiarEstadoCarrera /\ UNCHANGED otros
    \/ Paso(Sesiones) /\ UNCHANGED otros

SpecCarrera == Init /\ [][NextCarrera]_vars

\* ------------------------------------------------------ _publicar_precio
\* the rows of the pair whose vigente_hasta is NULL
Vigentes(par) == {i \in 1 .. Len(precios) : precios[i].par = par /\ precios[i].abierta}

\* db.rollback() of the caller after a statement of the call raised
PublicarFalla(s) ==
    /\ pub[s].paso # "libre"
    /\ pub' = [pub EXCEPT ![s] = PubNula]
    /\ UNCHANGED <<pedidosVars, precios>>

\* SQL_PRECIOS_CERRAR_VIG is issued: the UPDATE selects the committed rows of
\* the pair with vigente_hasta IS NULL
PublicarCerrarInicio(s, par, precio_bruto) ==
    /\ pub[s].paso = "libre"
    /\ Len(precios) < MaxPrecios
    /\ pub' = [pub EXCEPT ![s] = [paso |-> "cerrando", par |-> par,
                                   precio_bruto |-> precio_bruto,
                                   vistas |-> Vigentes(par), cerradas |-> {}]]
    /\ UNCHANGED <<pedidosVars, precios>>

\* a closing UPDATE that matches no row: the variant against which the
\* single in-force row of a pair (C14) is tested
PublicarCerrarNada(s) ==
    /\ pub[s].paso = "cerrando"
    /\ pub' = [pub EXCEPT ![s].paso = "cerrado", ![s].cerradas = {}]
    /\ UNCHANGED <<pedidosVars, precios>>

\* SQL_PRECIOS_CERRAR_VIG ends: it waits while another session holds the
\* lock of a selected row, then closes the selected rows that are still open
PublicarCerrarFin(s) ==
    /\ pub[s].paso = "cerrando"
    /\ \A t \in Sesiones \ {s} : pub[t].cerradas \cap pub[s].vistas = {}
    /\ pub' = [pub EXCEPT ![s].paso = "cerrado",
                           ![s].cerradas = {i \in pub[s].vistas : precios[i].abierta}]
    /\ UNCHANGED <<pedidosVars, precios>>

\* SQL_PRECIOS_INSERT: the new row, with vigente_hasta NULL
PublicarInsertar(s) ==
    /\ pub[s].paso = "cerrado"
    /\ pub' = [pub EXCEPT ![s].paso = "insertado"]
    /\ UNCHANGED <<pedidosVars, precios>>

\* a commit that closes every row of the pair that is open when it commits,
\* as a serialised publication would: the variant against which the rows
\* left open by two racing publications (C15) are tested
PublicarConfirmarSerial(s) ==
    /\ pub[s].paso = "insertado"
    /\ precios' = Append([i \in 1 .. Len(precios) |->
                             IF precios[i].par = pub[s].par
                             THEN [precios[i] EXCEPT !.abierta = FALSE]
                             ELSE precios[i]],
                         [par |-> pub[s].par, precio_bruto |-> pub[s].precio_bruto,
                          abierta |-> TRUE])
    /\ pub' = [pub EXCEPT ![s] = PubNula]
    /\ UNCHANGED pedidosVars

\* db.commit() of the caller: the closed rows and the new row are persisted
PublicarConfirmar(s) ==
    /\ pub[s].paso = "insertado"
    /\ precios' = Append([i \in 1 .. Len(precios) |->
                             IF i \in pub[s].cerradas
                             THEN [precios[i] EXCEPT !.abierta = FALSE]
                             ELSE precios[i]],
                         [par |-> pub[s].par, precio_bruto |-> pub[s].precio_bruto,
                          abierta |-> TRUE])
    /\ pub' = [pub EXCEPT ![s] = PubNula]
    /\ UNCHANGED pedidosVars

PublicarPrecio(S) ==
    \E s \in S, par \in ParesPrecio, precio_bruto \in PreciosBrutos :
        PublicarCerrarInicio(s, par, precio_bruto)
PasoPublicar(S) ==
    \E s \in S : \/ PublicarCerrarFin(s) \/ PublicarInsertar(s)
                 \/ PublicarConfirmar(s) \/ PublicarFalla(s)

SinPublicar == \A s \in Sesiones : pub[s].paso = "libre"

\* publications one at a time
NextPrecios ==
    \/ SinPublicar /\ PublicarPrecio(SesSerie)
    \/ PasoPublicar(SesSerie)

SpecPrecios == Init /\ [][NextPrecios]_vars

\* publications of two sessions interleaved statement by statement
NextPreciosCarrera ==
    \/ PublicarPrecio(Sesiones)
    \/ PasoPublicar(Sesiones)

SpecPreciosCarrera == Init /\ [][NextPreciosCarrera]_vars

\* ------------------------------------------------------ _aplicar_redondeo
\* Prices are exact numbers of hundredths of a peso: the float p of the code
\* is precio / Escala.
Escala == 100

\* int(n / d) in place of round(n / d): the variant against which the values
\* of the strategies (C18) are tested
RoundTruncado(n, d) == n \div d

\* Python's round(n / d) for n >= 0, d > 0: the nearest integer, a tie going
\* to the even one
Round(n, d) ==
    LET q == n \div d
        r == n % d
    IN  IF 2 * r < d THEN q
        ELSE IF 2 * r > d THEN q + 1
        ELSE IF q % 2 = 0 THEN q ELSE q + 1

\* PSICO_990 on the nearest thousand instead of the thousand below: the
\* variant against which idempotence (C17) is tested
AplicarRedondeoCercano(codigo, precio) ==
    IF precio <= 0 THEN 0
    ELSE IF codigo = "PSICO_990" THEN Round(precio, 1000 * Escala) * 1000 + 990
    ELSE IF codigo = "REDONDEO_100" THEN Round(precio, 100 * Escala) * 100
    ELSE Round(precio, Escala)

\* _aplicar_redondeo(codigo, precio): the result is a whole number of pesos
AplicarRedondeo(codigo, precio) ==
    IF precio <= 0 THEN 0
    ELSE IF codigo = "PSICO_990" THEN (precio \div (1000 * Escala)) * 1000 + 990
    ELSE IF codigo = "REDONDEO_100" THEN Round(precio, 100 * Escala) * 100
    ELSE IF codigo = "EXACTO" THEN Round(precio, Escala)
    ELSE Round(precio, Escala)

\* the strategy codes of a call: the three of the code and one it does not know
CodigosRedondeo == {"PSICO_990", "REDONDEO_100", "EXACTO", "psico_990"}
\* the prices of a call, in hundredths: every hundredth around zero, and the
\* whole prices above
PreciosRedondeo ==
    (-MaxCentavos .. MaxCentavos)
        \cup {k * Escala : k \in (MaxCentavos \div Escala) .. MaxPesos}

InitRedondeo ==
    /\ InitTablas
    /\ resolucion = ResolucionNula
    /\ redondeo \in {[paso |-> "entrada", codigo |-> c, precio |-> x] :
                        c \in CodigosRedondeo, x \in PreciosRedondeo}

\* the call on the drawn price
Redondear ==
    /\ redondeo.paso = "entrada"
    /\ redondeo' = [paso |-> "una", codigo |-> redondeo.codigo,
                     precio |-> redondeo.precio,
                     una |-> AplicarRedondeo(redondeo.codigo, redondeo.precio)]
    /\ UNCHANGED <<sistema, resolucion>>

\* the call on the result of the first call
Reaplicar ==
    /\ redondeo.paso = "una"
    /\ redondeo' = [redondeo EXCEPT !.paso = "dos"] @@
                        [dos |-> AplicarRedondeo(redondeo.codigo, redondeo.una * Escala)]
    /\ UNCHANGED <<sistema, resolucion>>

NextRedondeo == Redondear \/ Reaplicar

SpecRedondeo == InitRedondeo /\ [][NextRedondeo]_vars

\* ------------------------------------------------------- resolver_precio
\* A nullable number: Ninguno is Python None / SQL NULL, Algun(n) the number n.
Ninguno == << >>
Algun(n) == <<n>>
Valor(x) == x[1]

\* float(val) on the texts a parameter can hold: Algun(hundredths), or
\* Ninguno when float() raises ValueError
Flotante(t) ==
    IF t = "0.08" THEN Algun(8)
    ELSE IF t = "0.05" THEN Algun(5)
    ELSE Ninguno

\* str.upper() on the strategy codes: only "psico_990" has lower-case letters
UpperEstrategia(c) == IF c = "psico_990" THEN "PSICO_990" ELSE c

\* _get_param: the valor of the row, the default when there is no row
GetParam(parametros, clave, default) ==
    IF parametros[clave] = NULL THEN default ELSE parametros[clave]

\* _get_pts_margin_for_producto: category override, then medication-type
\* override, then the parameter pts_margen_default; hundredths, or Ninguno
GetPtsMarginForProducto(D) ==
    IF D.categoria_id # Ninguno /\ Valor(D.categoria_id) # 0 /\ D.margen_cat # Ninguno
    THEN D.margen_cat
    ELSE IF D.id_tipo_medicamento # Ninguno /\ Valor(D.id_tipo_medicamento) # 0
            /\ D.margen_tipo # Ninguno
    THEN D.margen_tipo
    ELSE Flotante(GetParam(D.parametros, "pts_margen_default", "0.08"))

\* ORDER BY id_politica alone: the variant against which the order of
\* evaluation (C16) is tested
AntesPoliticaPorId(a, b) == a.id_politica < b.id_politica

\* ORDER BY prioridad ASC, id_politica ASC
AntesPolitica(a, b) ==
    \/ a.prioridad < b.prioridad
    \/ a.prioridad = b.prioridad /\ a.id_politica < b.id_politica

\* ORDER BY prioridad ASC, id_regla ASC
AntesRegla(a, b) ==
    \/ a.prioridad < b.prioridad
    \/ a.prioridad = b.prioridad /\ a.id_regla < b.id_regla

RECURSIVE OrdenPoliticas(_)
OrdenPoliticas(S) ==
    IF S = {} THEN << >>
    ELSE LET x == CHOOSE x \in S : \A y \in S \ {x} : AntesPolitica(x, y)
         IN  <<x>> \o OrdenPoliticas(S \ {x})

RECURSIVE OrdenReglas(_)
OrdenReglas(S) ==
    IF S = {} THEN << >>
    ELSE LET x == CHOOSE x \in S : \A y \in S \ {x} : AntesRegla(x, y)
         IN  <<x>> \o OrdenReglas(S \ {x})

\* SQL_POLITICAS_ACTIVAS
PoliticasActivas(D) ==
    OrdenPoliticas({p \in D.politicas :
                       p.activo /\ (p.canal = D.canal \/ p.canal = "ANY")})

\* SQL_REGLAS_BY_POL
ReglasByPol(D, id_politica) ==
    OrdenReglas({r \in D.reglas : r.id_politica = id_politica /\ r.activo})

\* _get_costo_base: whole pesos, or Ninguno
CostoBase(D) == D.costo

\* SQL_PVP_REF_ACTUAL, read only for the channels ANY and ERP
PvpRef(D) == IF D.canal \in {"ANY", "ERP"} THEN D.pvp ELSE Ninguno

\* pol["redondeo_estrategia"] or "EXACTO"
PolRedondeo(pol) ==
    IF pol.redondeo_estrategia = NULL \/ pol.redondeo_estrategia = ""
    THEN "EXACTO" ELSE pol.redondeo_estrategia

\* margen_min_pct: pr is raised to costo * (1 + mm / 100) when it is below
ConMin(rg, costo, pr) ==
    IF rg.margen_min_pct # Ninguno /\ costo # Ninguno
       /\ pr < Valor(costo) * (100 + Valor(rg.margen_min_pct))
    THEN Valor(costo) * (100 + Valor(rg.margen_min_pct)) ELSE pr

\* tope_pct: pr is lowered to pvp_ref * (1 + tp / 100) when it is above
ConTope(rg, pvp_ref, pr) ==
    IF rg.tope_pct # Ninguno /\ pvp_ref # Ninguno
       /\ pr > Valor(pvp_ref) * (100 + Valor(rg.tope_pct))
    THEN Valor(pvp_ref) * (100 + Valor(rg.tope_pct)) ELSE pr

\* the cap applied before the floor: the variant against which the order
\* of the guardrails (C21) is tested
GuardarrailesTopePrimero(rg, costo, pvp_ref, pr) ==
    ConMin(rg, costo, ConTope(rg, pvp_ref, pr))

\* the guardrails of a rule on the candidate pr (hundredths): the floor
\* first, the cap after it
Guardarrailes(rg, costo, pvp_ref, pr) ==
    ConTope(rg, pvp_ref, ConMin(rg, costo, pr))

\* the body of the loop over the rules for one rule: the filter that drops
\* it, or bruto_calc, bruto_guard (hundredths, or Ninguno) and bruto_final
EvaluarRegla(D, pol, rg) ==
    LET costo == CostoBase(D)
        tipo_id == D.id_tipo_medicamento
        pvp_ref == PvpRef(D)
        nada == [calc |-> Ninguno, guard |-> Ninguno, final |-> 0]
    IN  IF rg.id_tipo_medicamento # Ninguno
           /\ (tipo_id = Ninguno \/ tipo_id # rg.id_tipo_medicamento)
        THEN [filtro |-> "tipo_medicamento"] @@ nada
        ELSE IF costo # Ninguno /\ rg.rango_costo_min # Ninguno
                /\ Valor(costo) < Valor(rg.rango_costo_min)
        THEN [filtro |-> "rango_min"] @@ nada
        ELSE IF costo # Ninguno /\ rg.rango_costo_max # Ninguno
                /\ Valor(costo) > Valor(rg.rango_costo_max)
        THEN [filtro |-> "rango_max"] @@ nada
        ELSE
        LET pct(x) == IF x = Ninguno THEN 0 ELSE Valor(x)
            bruto_calc ==
                IF rg.tipo_formula = "COSTO_MAS_MARKUP"
                THEN IF costo # Ninguno
                     THEN Algun(Valor(costo) * (100 + pct(rg.markup_pct)))
                     ELSE Ninguno
                ELSE IF rg.tipo_formula = "DESCUENTO_SOBRE_PVP"
                THEN IF pvp_ref # Ninguno
                     THEN Algun(Valor(pvp_ref) * (100 - pct(rg.descuento_pct)))
                     ELSE Ninguno
                ELSE IF rg.tipo_formula = "PRECIO_FIJO"
                THEN IF rg.precio_fijo_clp # Ninguno
                     THEN Algun(Valor(rg.precio_fijo_clp) * Escala)
                     ELSE Ninguno
                ELSE Ninguno
            bruto_guard ==
                IF bruto_calc # Ninguno
                THEN Algun(Guardarrailes(rg, costo, pvp_ref, Valor(bruto_calc)))
                ELSE Ninguno
            bruto_final ==
                AplicarRedondeo(PolRedondeo(pol),
                                IF bruto_guard # Ninguno THEN Valor(bruto_guard) ELSE 0)
        IN  [filtro |-> "pasa", calc |-> bruto_calc, guard |-> bruto_guard,
             final |-> bruto_final]

\* for rg in reglas: a dropped rule and an applied rule leave a step each;
\* the first applied rule with a positive bruto_final is the resolution
RECURSIVE ReglasLoop(_, _, _, _)
ReglasLoop(D, pol, reglas, pasos) ==
    IF reglas = << >> THEN [ok |-> FALSE, pasos |-> pasos]
    ELSE
    LET rg == Head(reglas)
        ev == EvaluarRegla(D, pol, rg)
    IN  IF ev.filtro # "pasa"
        THEN ReglasLoop(D, pol, Tail(reglas),
                        Append(pasos, <<"regla descartada", rg.id_regla, ev.filtro>>))
        ELSE
        LET pasos2 == Append(pasos, <<"regla", rg.id_regla, rg.tipo_formula,
                                      ev.calc, ev.guard, ev.final>>)
        IN  IF ev.final > 0
            THEN [ok |-> TRUE, precio_bruto |-> ev.final, id_lista |-> pol.id_lista,
                  politica |-> Algun(pol.id_politica), regla |-> Algun(rg.id_regla),
                  tipo |-> rg.tipo_formula, costo_base |-> CostoBase(D),
                  pvp_ref |-> PvpRef(D), redondeo |-> PolRedondeo(pol),
                  pasos |-> pasos2]
            ELSE ReglasLoop(D, pol, Tail(reglas), pasos2)

\* for pol in politicas
RECURSIVE PoliticasLoop(_, _, _)
PoliticasLoop(D, politicas, pasos) ==
    IF politicas = << >> THEN [ok |-> FALSE, pasos |-> pasos]
    ELSE
    LET pol == Head(politicas)
        r == ReglasLoop(D, pol, ReglasByPol(D, pol.id_politica),
                        Append(pasos, <<"politica", pol.id_politica, PolRedondeo(pol)>>))
    IN  IF r.ok THEN r
        ELSE PoliticasLoop(D, Tail(politicas),
                           Append(r.pasos, <<"sin regla aplicable", pol.id_politica>>))

\* _get_lista_id(db, slug): the module calls this name and neither defines
\* nor imports it, so the call raises NameError
GetListaId(slug) == [excepcion |-> "NameError", nombre |-> "_get_lista_id"]

\* the value is an exception on its way up, not a result
Levanta(r) == "excepcion" \in DOMAIN r

\* the PTS fallback and the failure that follows it, after pasos; the
\* dictionary it returns is built entry by entry, id_lista after precio_bruto
FallbackPTS(D, pasos) ==
    LET costo == CostoBase(D)
        margen == IF D.canal = "PTS" /\ costo # Ninguno
                  THEN GetPtsMarginForProducto(D) ELSE Ninguno
    IN  IF margen # Ninguno
        THEN LET bruto == Valor(costo) * (100 + Valor(margen))
                 param == GetParam(D.parametros, "pts_redondeo", "EXACTO")
                 codigo == UpperEstrategia(IF param = "" THEN "EXACTO" ELSE param)
                 bruto_final == AplicarRedondeo(codigo, bruto)
                 id_lista == GetListaId("pts")
             IN  IF Levanta(id_lista) THEN id_lista
                 ELSE
                 [ok |-> TRUE, precio_bruto |-> bruto_final, id_lista |-> id_lista.id,
                  politica |-> Ninguno, regla |-> Ninguno,
                  tipo |-> "COSTO_MAS_MARKUP", costo_base |-> costo,
                  pvp_ref |-> PvpRef(D), redondeo |-> codigo,
                  pasos |-> Append(pasos, <<"fallback_PTS", margen, codigo,
                                            bruto, bruto_final>>)]
        ELSE [ok |-> FALSE,
              error |-> "No se encontro regla aplicable o falta costo_base.",
              costo_base |-> costo, pvp_ref |-> PvpRef(D),
              pasos |-> Append(pasos, <<"sin regla ni fallback">>)]

\* resolver_precio on the database D and the channel D.canal
ResolverPrecio(D) ==
    LET politicas == PoliticasActivas(D)
        pasos == << <<"costo_base", CostoBase(D)>>,
                    <<"producto", D.id_tipo_medicamento, D.categoria_id>>,
                    <<"pvp_ref", PvpRef(D)>>,
                    <<"politicas_candidatas", Len(politicas)>> >>
        r == PoliticasLoop(D, politicas, pasos)
    IN  IF r.ok THEN r ELSE FallbackPTS(D, r.pasos)

\* a row of public.reglas_precio of one of four forms
ReglaBase(id_regla, id_politica, prioridad, activo) ==
    [id_regla |-> id_regla, id_politica |-> id_politica, prioridad |-> prioridad,
     activo |-> activo, tipo_formula |-> "", markup_pct |-> Ninguno,
     descuento_pct |-> Ninguno, precio_fijo_clp |-> Ninguno,
     margen_min_pct |-> Ninguno, tope_pct |-> Ninguno, rango_costo_min |-> Ninguno,
     rango_costo_max |-> Ninguno, id_tipo_medicamento |-> Ninguno]

Regla(forma, base) ==
    CASE forma = "markup" ->
            [base EXCEPT !.tipo_formula = "COSTO_MAS_MARKUP", !.markup_pct = Algun(10),
                         !.margen_min_pct = Algun(20), !.rango_costo_min = Algun(500)]
      [] forma = "fijo" ->
            [base EXCEPT !.tipo_formula = "PRECIO_FIJO", !.precio_fijo_clp = Algun(1500),
                         !.id_tipo_medicamento = Algun(7), !.rango_costo_max = Algun(500)]
      [] forma = "descuento" ->
            [base EXCEPT !.tipo_formula = "DESCUENTO_SOBRE_PVP",
                         !.descuento_pct = Algun(10), !.tope_pct = Algun(-20)]
      [] OTHER ->
            [base EXCEPT !.tipo_formula = "PRECIO_FIJO"]

\* the databases and channels of a call: two policies, the first with two
\* rules and the second with one; a product; the margins and the parameters
EntradasResolver ==
    {[paso |-> "entrada", canal |-> canal,
      costo |-> costo, id_tipo_medicamento |-> tipo, categoria_id |-> cat, pvp |-> pvp,
      politicas |->
         {[id_politica |-> 1, id_lista |-> 1, canal |-> "PTS", prioridad |-> p1,
           activo |-> a1, redondeo_estrategia |-> NULL],
          [id_politica |-> 2, id_lista |-> 2, canal |-> "ANY", prioridad |-> 1,
           activo |-> TRUE, redondeo_estrategia |-> "PSICO_990"]},
      reglas |->
         {Regla(f1, ReglaBase(1, 1, r1, TRUE)),
          Regla(f2, ReglaBase(2, 1, 1, TRUE)),
          Regla(f3, ReglaBase(3, 2, 1, a3))},
      margen_cat |-> mc, margen_tipo |-> mt,
      parametros |-> [clave \in {"pts_margen_default", "pts_redondeo"} |->
                        IF clave = "pts_margen_default" THEN md ELSE rd]] :
     <<canal, pvp>> \in {<<"PTS", Algun(9990)>>, <<"ERP", Ninguno>>,
                         <<"ERP", Algun(9990)>>},
     costo \in {Ninguno, Algun(0), Algun(1000)},
     <<tipo, mt>> \in {<<Ninguno, Ninguno>>, <<Algun(7), Ninguno>>,
                       <<Algun(7), Algun(20)>>},
     <<cat, mc>> \in {<<Ninguno, Ninguno>>, <<Algun(3), Ninguno>>,
                      <<Algun(3), Algun(10)>>},
     <<p1, a1>> \in {<<1, TRUE>>, <<2, TRUE>>, <<1, FALSE>>},
     r1 \in {1, 2}, a3 \in BOOLEAN,
     f1 \in {"markup", "fijo", "nulo"}, f2 \in {"markup", "descuento"},
     f3 \in {"fijo", "descuento"},
     md \in {NULL, "abc"}, rd \in {NULL, "psico_990"}}

InitResolver ==
    /\ InitTablas
    /\ redondeo = RedondeoNulo
    /\ resolucion \in EntradasResolver

\* the call returns its dictionary, or raises
Resolver ==
    /\ resolucion.paso = "entrada"
    /\ LET r == ResolverPrecio(resolucion)
       IN  resolucion' = IF Levanta(r)
                         THEN [resolucion EXCEPT !.paso = "excepcion"] @@
                                 [excepcion |-> r.excepcion]
                         ELSE [resolucion EXCEPT !.paso = "fin"] @@ [info |-> r]
    /\ UNCHANGED <<sistema, redondeo>>

NextResolver == Resolver

SpecResolver == InitResolver /\ [][NextResolver]_vars

\* the databases and channels of the calls that exercise the guardrails:
\* one policy of channel ANY with one rule, whose floor (cost 1000 and 20 %:
\* 1200) is below the cap of -20 % (7992) and above the cap of -90 % (999)
EntradasGuardas ==
    {[paso |-> "entrada", canal |-> canal,
      costo |-> costo, id_tipo_medicamento |-> Ninguno, categoria_id |-> Ninguno,
      pvp |-> pvp,
      politicas |->
         {[id_politica |-> 1, id_lista |-> 1, canal |-> "ANY", prioridad |-> 1,
           activo |-> TRUE, redondeo_estrategia |-> red]},
      reglas |->
         {[ReglaBase(1, 1, 1, TRUE) EXCEPT
              !.tipo_formula = formula, !.markup_pct = Algun(10),
              !.descuento_pct = Algun(10), !.precio_fijo_clp = Algun(1500),
              !.margen_min_pct = mm, !.tope_pct = tp]},
      margen_cat |-> Ninguno, margen_tipo |-> Ninguno,
      parametros |-> [clave \in {"pts_margen_default", "pts_redondeo"} |-> NULL]] :
     canal \in {"PTS", "ERP", "ANY"},
     costo \in {Ninguno, Algun(0), Algun(1000)},
     pvp \in {Ninguno, Algun(9990)},
     red \in {NULL, "PSICO_990"},
     formula \in {"COSTO_MAS_MARKUP", "DESCUENTO_SOBRE_PVP", "PRECIO_FIJO"},
     mm \in {Ninguno, Algun(20)},
     tp \in {Ninguno, Algun(-20), Algun(-90)}}

InitGuardas ==
    /\ InitTablas
    /\ redondeo = RedondeoNulo
    /\ resolucion \in EntradasGuardas

SpecGuardas == InitGuardas /\ [][NextResolver]_vars

\* ------------------------------------------ assignments and the carrier
\* public.transportistas: the rows, and those with activo = TRUE
Transportistas == {1, 2}
TransportistasActivos == {1}
\* id_transportista of a form: the last one has no row
TransportistasForm == {1, 2, 3}
\* the status codes the carrier endpoints ask for
DestinosCarrier == {"RETIRADO", "ENTREGADO"}

\* SQL_ASIG_VIGENTE: the ids of the active assignments of an order
AsigVigentes(tabla, o) ==
    {i \in 1 .. Len(tabla) : tabla[i].id_pedido = o /\ tabla[i].activo}

\* the response of the assignment handler
RespAsignar(o, t, status) ==
    [handler |-> "asignar", id_pedido |-> o, status |-> status]

\* admin_pedido_asignar_transportista
AsignarTransportista(o, t) ==
    /\ Libres
    /\ IF ~Existe(o)
       THEN resp_tr' = RespAsignar(o, t, 404) /\ UNCHANGED asignaciones
       ELSE IF t \notin TransportistasActivos
       THEN resp_tr' = RespAsignar(o, t, 400) /\ UNCHANGED asignaciones
       ELSE \* the statements succeed and the commit persists them
            \/ /\ Len(asignaciones) < MaxAsignaciones
               /\ asignaciones' =
                     Append([i \in 1 .. Len(asignaciones) |->
                                IF asignaciones[i].id_pedido = o
                                THEN [asignaciones[i] EXCEPT !.activo = FALSE]
                                ELSE asignaciones[i]],
                            [id_pedido |-> o, id_transportista |-> t,
                             activo |-> TRUE])
               /\ resp_tr' = RespAsignar(o, t, 303)
            \* the insert of the note fails, its except swallows the error
            \* and the commit of the failed transaction persists nothing
            \/ /\ UNCHANGED asignaciones
               /\ resp_tr' = RespAsignar(o, t, 303)
            \* another statement fails: rollback and HTTP 500
            \/ /\ UNCHANGED asignaciones
               /\ resp_tr' = RespAsignar(o, t, 500)
    /\ UNCHANGED <<bd, pc, req, tx, resp, app_parametros, precios, pub, redondeo,
                   resolucion, recalc>>

\* the list allowed of _transition_if_allowed: the codes of the active
\* destinations of the active edges that leave cur
CarrierAllowed(cur) ==
    {estados[p[2]].codigo : p \in {q \in EstadoIds \X EstadoIds :
        /\ transiciones[q] = "activa"
        /\ Upper(estados[q[1]].codigo) = Upper(cur)
        /\ estados[q[2]].activo}}

\* a history row that takes the destination for its origin: the variant
\* against which the chain of the history rows (C28) is tested
FilaCarrierSinOrigen(cur, dst) == [origen |-> IdEstado(dst), destino |-> IdEstado(dst)]

\* the history row of _transition_if_allowed: the ids of the two codes
FilaCarrier(cur, dst) == [origen |-> IdEstado(cur), destino |-> IdEstado(dst)]

\* the response of a carrier endpoint, and whether it made the transition
RespCarrier(o, nuevo, status, transicion) ==
    [handler |-> "carrier", id_pedido |-> o, nuevo_estado |-> nuevo,
     status |-> status, transicion |-> transicion]

\* carrier_marcar_retirado, carrier_marcar_en_transito,
\* carrier_marcar_entregado, carrier_firmar_entrega: the event, then
\* _transition_if_allowed, then the commit
CarrierMarcar(o, nuevo) ==
    /\ Libres
    /\ LET cur == EstadoActual(o)
           allowed == CarrierAllowed(cur)
       IN  IF AsigVigentes(asignaciones, o) = {}
           THEN /\ resp_tr' = RespCarrier(o, nuevo, 404, FALSE)
                /\ UNCHANGED <<pedidos, historial>>
           ELSE IF allowed # {} /\ nuevo \notin allowed
           THEN /\ resp_tr' = RespCarrier(o, nuevo, 303, FALSE)
                /\ UNCHANGED <<pedidos, historial>>
           \* pedidos.estado_codigo references pedido_estados.codigo
           ELSE IF IdEstado(nuevo) = NoId
           THEN /\ resp_tr' = RespCarrier(o, nuevo, 500, FALSE)
                /\ UNCHANGED <<pedidos, historial>>
           ELSE /\ Cambios < MaxCambios
                /\ pedidos' = [pedidos EXCEPT ![o].estado_codigo = nuevo]
                /\ historial' = [historial EXCEPT ![o] = Append(@, FilaCarrier(cur, nuevo))]
                /\ resp_tr' = RespCarrier(o, nuevo, 303, TRUE)
    /\ UNCHANGED <<estados, transiciones, notas, pc, req, tx, resp, app_parametros,
                   precios, pub, redondeo, resolucion, recalc, asignaciones>>

\* the orders of the requests: the first order and the id that never exists
IdsTransporte == {1, MaxPedidos + 1}

Asignar == \E o \in IdsTransporte, t \in TransportistasForm : AsignarTransportista(o, t)
Marcar == \E o \in IdsTransporte, nuevo \in DestinosCarrier : CarrierMarcar(o, nuevo)

\* a change of status asked by an administrator with no notes
CambiarEstadoSinNotas ==
    /\ Libres
    /\ \E id \in IdsTransporte, nuevo \in {"NUEVO", RECHAZADO_QF, "ENTREGADO"} :
          Solicitar(1, id, nuevo, NULL, NULL, NULL, FALSE)
    /\ UNCHANGED otros

\* administrators and carriers, one request at a time
NextTransporte ==
    \/ GuardarTransiciones
    \/ NuevoPedido
    \/ CambiarEstadoSinNotas
    \/ Paso(SesSerie) /\ UNCHANGED otros
    \/ Asignar
    \/ Marcar

SpecTransporte == Init /\ [][NextTransporte]_vars

\* ------------------------------------------------- bulk recalculation
ProductoIds == {1, 2}

\* public.listas_precios: the id_lista of each slug
ListasPrecios == [pts |-> 1, pvp |-> 2]

\* public.productos: the category and the brand of a product
FichaProducto(p) == [categoria_id |-> 1, id_marca |-> p]

\* str(r["modo"]).upper()
UpperModo(modo) == IF modo = "manual" THEN "MANUAL" ELSE modo

\* _publicar_precio inside the transaction of its caller: the open rows of
\* the pair are closed and the new row is inserted
PublicarEn(tabla, par, precio_bruto) ==
    Append([i \in 1 .. Len(tabla) |->
               IF tabla[i].par = par THEN [tabla[i] EXCEPT !.abierta = FALSE]
               ELSE tabla[i]],
           [par |-> par, precio_bruto |-> precio_bruto, abierta |-> TRUE])

\* the rows of a SELECT id_producto, as a list
RECURSIVE EnOrden(_)
EnOrden(S) ==
    IF S = {} THEN << >>
    ELSE LET x == CHOOSE x \in S : \A y \in S : x <= y
         IN  <<x>> \o EnOrden(S \ {x})

\* the scope misses the id that aplicar_a needs: HTTP 400
FaltaId(R) == R.aplicar_a # "todo" /\ R.id_alcance = Ninguno

\* productos: the scope of the request
Alcance(R) ==
    CASE R.aplicar_a = "producto" -> <<Valor(R.id_alcance)>>
      [] R.aplicar_a = "categoria" ->
            EnOrden({p \in R.productos :
                        FichaProducto(p).categoria_id = Valor(R.id_alcance)})
      [] R.aplicar_a = "marca" ->
            EnOrden({p \in R.productos :
                        FichaProducto(p).id_marca = Valor(R.id_alcance)})
      [] OTHER -> EnOrden(R.productos)

\* the target lists with no look at the mode of the PVP list and with the
\* ids of public.listas_precios: the variant against which the manual PVP
\* list (C23) is tested
ListasRecalculoSinModo(R) ==
    [pts |-> IF R.recalcular_pts THEN Algun(ListasPrecios.pts) ELSE Ninguno,
     pvp |-> IF R.recalcular_pvp THEN Algun(ListasPrecios.pvp) ELSE Ninguno]

\* id_lista_pts and id_lista_pvp: the ids of the lists to publish into, the
\* PVP list dropped when its mode is MANUAL and force_pvp is not set
ListasRecalculo(R) ==
    IF R.recalcular_pts /\ Levanta(GetListaId("pts")) THEN GetListaId("pts")
    ELSE IF R.recalcular_pvp /\ Levanta(GetListaId("pvp")) THEN GetListaId("pvp")
    ELSE
    LET id_lista_pts == IF R.recalcular_pts THEN Algun(GetListaId("pts").id)
                        ELSE Ninguno
        id_lista_pvp == IF R.recalcular_pvp THEN Algun(GetListaId("pvp").id)
                        ELSE Ninguno
        pvp_es_manual == id_lista_pvp # Ninguno /\ UpperModo(R.modo_pvp) = "MANUAL"
    IN  [pts |-> id_lista_pts,
         pvp |-> IF pvp_es_manual /\ ~R.force_pvp THEN Ninguno ELSE id_lista_pvp]

\* SQL_PVP_REF_ACTUAL: the price in force of the product on the list pvp
PvpVigente(tabla, pid) ==
    LET filas == {i \in 1 .. Len(tabla) :
                     tabla[i].par = <<pid, ListasPrecios.pvp>> /\ tabla[i].abierta}
    IN  IF filas = {} THEN Ninguno
        ELSE Algun(tabla[CHOOSE i \in filas : \A j \in filas : j <= i].precio_bruto)

\* what resolver_precio reads for a product of the request on a channel
DatosResolver(R, tabla, pid, canal) ==
    [canal |-> canal, costo |-> IF pid \in R.productos THEN R.costo[pid] ELSE Ninguno,
     id_tipo_medicamento |-> Ninguno,
     categoria_id |-> Algun(FichaProducto(pid).categoria_id),
     pvp |-> PvpVigente(tabla, pid),
     politicas |-> R.politicas, reglas |-> R.reglas,
     margen_cat |-> Ninguno, margen_tipo |-> Ninguno,
     parametros |-> [clave \in {"pts_margen_default", "pts_redondeo"} |-> NULL]]

\* what resolver_precio answers for each product on each channel of the
\* loop; a block reads no row that an earlier block of the loop has written
\* (the block of the list pvp of a product is the only writer of its PVP
\* price, and it writes after it has resolved)
Resoluciones(R, tabla) ==
    [b \in ProductoIds \X {"PTS", "ANY"} |->
        ResolverPrecio(DatosResolver(R, tabla, b[1], b[2]))]

\* one try block of the loop: the product is resolved on the channel and its
\* price published into the list, or an entry is added to errores
RecalcularLista(infos, pid, canal, slug, id_lista, acc) ==
    LET info == infos[<<pid, canal>>]
    IN  IF Levanta(info)
        THEN [acc EXCEPT !.errores = Append(@, [id_producto |-> pid, lista |-> slug])]
        ELSE IF info.ok
        THEN [acc EXCEPT
                !.tabla = PublicarEn(@, <<pid, id_lista>>, info.precio_bruto),
                !.publicados = Append(@, [id_producto |-> pid, lista |-> slug,
                                          id_precio |-> Len(acc.tabla) + 1,
                                          precio |-> info.precio_bruto])]
        ELSE [acc EXCEPT !.errores = Append(@, [id_producto |-> pid, lista |-> slug])]

\* the try blocks of one product, in the order of the loop body: the list
\* pts on the channel PTS, then the list pvp on the channel ANY
Bloques(listas, pid) ==
    (IF listas.pts # Ninguno
     THEN <<[pid |-> pid, canal |-> "PTS", slug |-> "pts", id_lista |-> Valor(listas.pts)]>>
     ELSE << >>)
    \o (IF listas.pvp # Ninguno
        THEN <<[pid |-> pid, canal |-> "ANY", slug |-> "pvp", id_lista |-> Valor(listas.pvp)]>>
        ELSE << >>)

\* the try blocks of the whole loop
RECURSIVE BloquesLoop(_, _)
BloquesLoop(listas, productos) ==
    IF productos = << >> THEN << >>
    ELSE Bloques(listas, Head(productos)) \o BloquesLoop(listas, Tail(productos))

\* for pid in productos
RECURSIVE RecalcularLoop(_, _, _)
RecalcularLoop(infos, bloques, acc) ==
    IF bloques = << >> THEN acc
    ELSE LET b == Head(bloques)
         IN  RecalcularLoop(infos, Tail(bloques),
                            RecalcularLista(infos, b.pid, b.canal, b.slug,
                                            b.id_lista, acc))

\* admin_precios_recalcular on the price table, infos being the answers of
\* resolver_precio: the response and the table after the commit or the
\* rollback
AdminPreciosRecalcular(R, tabla, infos) ==
    IF FaltaId(R) THEN [status |-> 400, tabla |-> tabla]
    ELSE IF Alcance(R) = << >>
    THEN [status |-> 200, processed |-> 0, items |-> << >>, tabla |-> tabla]
    ELSE
    LET listas == ListasRecalculo(R)
    IN  IF Levanta(listas) THEN [status |-> 500, tabla |-> tabla]
        ELSE
        [status |-> 200, processed |-> Len(Alcance(R))]
           @@ RecalcularLoop(infos, BloquesLoop(listas, Alcance(R)),
                             [tabla |-> tabla, publicados |-> << >>,
                              errores |-> << >>])

\* the requests and what they read: the scope, the flags, the products of
\* the table with their cost, the mode of the PVP list, a policy of channel
\* PTS on the list pts with a markup rule and a policy of channel ANY on the
\* list pvp with a fixed price
EntradasRecalc ==
    {[paso |-> "entrada", aplicar_a |-> aplicar_a, id_alcance |-> id,
      recalcular_pts |-> rpts, recalcular_pvp |-> rpvp, force_pvp |-> force,
      modo_pvp |-> modo, productos |-> productos,
      costo |-> [p \in ProductoIds |-> IF p = 1 THEN costo ELSE Algun(1000)],
      politicas |->
         {[id_politica |-> 1, id_lista |-> ListasPrecios.pts, canal |-> "PTS",
           prioridad |-> 1, activo |-> TRUE, redondeo_estrategia |-> NULL],
          [id_politica |-> 2, id_lista |-> ListasPrecios.pvp, canal |-> "ANY",
           prioridad |-> 2, activo |-> TRUE, redondeo_estrategia |-> NULL]},
      reglas |->
         {[ReglaBase(1, 1, 1, TRUE) EXCEPT !.tipo_formula = "COSTO_MAS_MARKUP",
                                           !.markup_pct = Algun(10)],
          [ReglaBase(2, 2, 1, TRUE) EXCEPT !.tipo_formula = "PRECIO_FIJO",
                                           !.precio_fijo_clp = Algun(1500)]}] :
     aplicar_a \in {"producto", "categoria", "marca", "todo"},
     id \in {Ninguno, Algun(1), Algun(2)},
     rpts \in BOOLEAN, rpvp \in BOOLEAN, force \in BOOLEAN,
     modo \in {"MANUAL", "manual", "AUTO"},
     productos \in {{1}, {1, 2}},
     costo \in {Ninguno, Algun(1000)}}

\* the price tables a recalculation can find: empty, or with the price in
\* force of product 1 on the list pvp
PreciosIniciales ==
    {<< >>, <<[par |-> <<1, ListasPrecios.pvp>>, precio_bruto |-> 1000,
               abierta |-> TRUE]>>}

InitRecalc ==
    /\ InitBase
    /\ redondeo = RedondeoNulo
    /\ resolucion = ResolucionNula
    /\ precios \in PreciosIniciales
    /\ recalc \in EntradasRecalc

\* the request is served
Recalcular ==
    /\ recalc.paso = "entrada"
    /\ \E infos \in {Resoluciones(recalc, precios)} :
       \E r \in {AdminPreciosRecalcular(recalc, precios, infos)} :
          /\ precios' = r.tabla
          /\ recalc' = [recalc EXCEPT !.paso = "fin"] @@
                          [resp |-> [k \in DOMAIN r \ {"tabla"} |-> r[k]]]
    /\ UNCHANGED <<bd, pc, req, tx, resp, app_parametros, pub, redondeo,
                   resolucion, asignaciones, resp_tr>>

NextRecalc == Recalcular

SpecRecalc == InitRecalc /\ [][NextRecalc]_vars

TypeOK ==
    /\ Cambios <= MaxCambios
    /\ \A s \in Sesiones : pc[s] \in {"libre", "upd", "hist", "notas", "arch", "mail",
                                        "notarechazo", "commit", "fin"}

\* ================================================================ claims
BienFormado(c) == c # "" /\ Len(c) <= MaxLenCodigo

\* the step of session s that reads the request and validates it, with the
\* list _next_states_for returned (it is not one when the function raised)
Validado(s) ==
    /\ pc[s] = "libre" /\ pc'[s] # "libre"
    /\ resp'[s] # "error no controlado"

\* C1, as stated: for every order and every requested destination code, the
\* request gets past the transition check only if the destination is in
\* next_states(current status) or that list is empty, and in every other
\* case the response is the error "Transicion no permitida".
C1_GatingOriginal ==
    [][\A s \in Sesiones : Validado(s) =>
          LET r == req'[s]
              allowed_codes == NextStatesFor(EstadoActual(r.id_pedido), r.falla_trans)
              pasa == r.nuevo_estado \in allowed_codes \/ allowed_codes = {}
          IN /\ pc'[s] = "upd" => pasa
             /\ ~pasa => resp'[s] = "Transicion no permitida"]_vars

\* C1, amended: the same for every destination code that is non-empty and at
\* most 64 characters long; an empty or longer code is answered "estado
\* invalido" before the current status and the list are read.
C1_Gating ==
    [][\A s \in Sesiones : Validado(s) =>
          LET r == req'[s]
              allowed_codes == NextStatesFor(EstadoActual(r.id_pedido), r.falla_trans)
              pasa == r.nuevo_estado \in allowed_codes \/ allowed_codes = {}
          IN /\ pc'[s] = "upd" => pasa
             /\ ~pasa /\ BienFormado(r.nuevo_estado)
                    => resp'[s] = "Transicion no permitida"
             /\ ~BienFormado(r.nuevo_estado) => resp'[s] = "estado invalido"]_vars

\* C1, witness: a request with a well-formed code has been refused by the
\* transition check
C1_Witness ==
    \E s \in Sesiones : /\ pc[s] = "fin" /\ resp[s] = "Transicion no permitida"
                         /\ BienFormado(req[s].nuevo_estado)

\* the order o holds a status whose code is the hard-coded rejection code
EnRechazo(o) == pedidos[o].existe /\ Upper(pedidos[o].estado_codigo) = RECHAZADO_QF

\* C2, as stated: once an order's status is RECHAZADO_QF, no step of any
\* change_status request changes that order's status, whatever the
\* destination code and the transition table.
C2_DeadEnd ==
    [][\A o \in PedidoIds :
          EnRechazo(o) => pedidos'[o].estado_codigo = pedidos[o].estado_codigo]_vars

\* C3: _next_states_for returns the empty list when the current status is
\* absent (None or empty) or is RECHAZADO_QF in any letter case, whatever
\* rows the transition table holds and whichever of its two queries answers.
C3_NextStatesEmpty ==
    \A falla \in BOOLEAN :
        /\ NextStatesFor(NULL, falla) = {}
        /\ NextStatesFor("", falla) = {}
        /\ NextStatesFor(RECHAZADO_QF, falla) = {}
        /\ NextStatesFor("rechazado_qf", falla) = {}
        /\ \A o \in IdsSolicitud :
              (~Existe(o) \/ EnRechazo(o)) => NextStatesFor(EstadoActual(o), falla) = {}

\* C3, witness: an order is in RECHAZADO_QF while the table holds an active
\* edge out of RECHAZADO_QF to an active status
C3_Witness ==
    /\ \E o \in PedidoIds : EnRechazo(o)
    /\ \E p \in EstadoIds \X EstadoIds :
          /\ transiciones[p] = "activa"
          /\ estados[p[1]].codigo = RECHAZADO_QF
          /\ estados[p[2]].activo

\* the catalog flags the status of order o as final
EnFinal(o) ==
    /\ pedidos[o].existe
    /\ \E i \in EstadoIds : /\ estados[i].codigo = pedidos[o].estado_codigo
                             /\ estados[i].es_final

\* C4, as stated: no step of any change_status request moves an order out of
\* a status whose catalog row has es_final = TRUE.
C4_FinalTerminal ==
    [][\A o \in PedidoIds :
          EnFinal(o) => pedidos'[o].estado_codigo = pedidos[o].estado_codigo]_vars

ErroresValidacion ==
    {"estado invalido", "Transicion no permitida", "Estado destino no existe en catalogo"}

\* C5: a request that fails validation (empty or over-long code, transition
\* not allowed, destination code missing from the catalog) leaves every
\* order's status, the history and the notes as they were, from its arrival
\* to its response, with no write pending in its session; and a well-formed
\* code that the catalog lacks never passes validation, whether the allowed
\* list is empty or not.
C5_FailedValidationWritesNothing ==
    [][\A s \in Sesiones :
          LET e == IF pc[s] = "libre" THEN resp'[s] ELSE resp[s]
              r == req'[s]
          IN /\ pc[s] \in {"libre", "fin"} /\ e \in ErroresValidacion
                   => /\ pedidos' = pedidos /\ historial' = historial /\ notas' = notas
                      /\ tx'[s] = TxNula
             /\ Validado(s) /\ BienFormado(r.nuevo_estado) /\ IdEstado(r.nuevo_estado) = NoId
                   => resp'[s] \in ErroresValidacion]_vars

\* C5, witness: a request for an existing order, whose allowed list is
\* empty, has been refused because the catalog lacks the destination code
C5_Witness ==
    \E s \in Sesiones :
        /\ pc[s] = "fin" /\ resp[s] = "Estado destino no existe en catalogo"
        /\ Existe(req[s].id_pedido)
        /\ NextStatesFor(req[s].estado_actual, req[s].falla_trans) = {}

\* C6, as stated: a request for an order id that has no row, carrying a code
\* of the catalog, ends with the error "Pedido no encontrado" and writes
\* nothing.
C6_OrderNotFound ==
    [][\A s \in Sesiones :
          /\ pc[s] # "fin" /\ pc'[s] = "fin"
          /\ ~Existe(req'[s].id_pedido) /\ IdEstado(req'[s].nuevo_estado) # NoId
          => /\ resp'[s] = "Pedido no encontrado"
             /\ pedidos' = pedidos /\ historial' = historial /\ notas' = notas]_vars

\* the step by which session s answers {ok: true}
RespondeOk(s) == pc[s] = "commit" /\ resp'[s] = "ok"

\* C7, as stated: each request answered {ok: true} inserts exactly one
\* history row for its order, with origin = catalog id of the order's status
\* before the call and destination = catalog id of the new status, and no
\* step modifies or deletes a history row.
C7_OneHistoryRow ==
    [][/\ \A s \in Sesiones : RespondeOk(s) =>
             LET o == req[s].id_pedido
             IN historial'[o] =
                   Append(historial[o], [origen |-> IdEstado(EstadoActual(o)),
                                         destino |-> IdEstado(req[s].nuevo_estado)])
       /\ \A o \in IdsSolicitud :
             /\ Len(historial'[o]) >= Len(historial[o])
             /\ SubSeq(historial'[o], 1, Len(historial[o])) = historial[o]]_vars

\* C8: the status update and the history insert of a request are committed
\* together or not at all.  A step writes the status of an existing order
\* from a request exactly when it appends that request's history row to the
\* order; a request that ends with the storage failure response has
\* changed nothing and leaves nothing pending; and no finished request
\* leaves a write pending.
C8_Atomic ==
    [][/\ \A o \in PedidoIds : pedidos[o].existe =>
             LET escribe == \E s \in Sesiones :
                                /\ pc[s] = "commit" /\ req[s].id_pedido = o
                                /\ tx[s].upd /\ tx[s].hist
                                /\ pedidos'[o].estado_codigo = req[s].nuevo_estado
                                /\ historial'[o] =
                                      Append(historial[o], [origen |-> req[s].id_origen,
                                                            destino |-> req[s].id_destino])
             IN /\ pedidos'[o].estado_codigo # pedidos[o].estado_codigo => escribe
                /\ historial'[o] # historial[o] => escribe
       /\ \A s \in Sesiones :
             /\ pc[s] # "fin" /\ resp'[s] = "error500"
                   => /\ pedidos' = pedidos /\ historial' = historial /\ notas' = notas
                      /\ tx'[s] = TxNula
             /\ pc'[s] = "fin" => ~tx'[s].upd /\ ~tx'[s].hist]_vars

\* C8, witness: a request for an existing order was rolled back by a storage
\* failure after its UPDATE had been issued, and the order keeps the status
\* the request read
C8_Witness ==
    \E s \in Sesiones :
        /\ pc[s] = "fin" /\ resp[s] = "error500"
        /\ Existe(req[s].id_pedido)
        /\ pedidos[req[s].id_pedido].estado_codigo = req[s].estado_actual
        /\ req[s].nuevo_estado # req[s].estado_actual

\* C9, as stated (its ordering): whenever a request is at the archival, the
\* e-mail or the rejection-note step, its status change and its history row
\* have been committed: the order holds the new status and the session has
\* no uncommitted status update or history row.
C9_AfterCommit ==
    \A s \in Sesiones :
        pc[s] \in {"arch", "mail", "notarechazo"} =>
            /\ ~tx[s].upd /\ ~tx[s].hist
            /\ pedidos[req[s].id_pedido].estado_codigo = req[s].nuevo_estado

\* C10, as stated: each request answered {ok: true} whose destination is
\* RECHAZADO_QF leaves the order with status RECHAZADO_QF and archived, adds
\* one rejection note for the customer and one history row with origin =
\* previous status and destination = RECHAZADO_QF.
C10_Rejection ==
    [][\A s \in Sesiones :
          RespondeOk(s) /\ Upper(req[s].nuevo_estado) = RECHAZADO_QF =>
             LET o == req[s].id_pedido
             IN /\ pedidos'[o].estado_codigo = RECHAZADO_QF
                /\ pedidos'[o].archivado
                /\ notas'[o].rechazo = notas[o].rechazo + 1
                /\ historial'[o] =
                      Append(historial[o], [origen |-> IdEstado(EstadoActual(o)),
                                            destino |-> IdEstado(RECHAZADO_QF)])]_vars

\* C11, as stated: in every reachable state each order's status code is the
\* code of a catalog row, and that row is active.
C11_ValidActive ==
    \A o \in PedidoIds :
        pedidos[o].existe =>
            \E i \in EstadoIds : /\ estados[i].codigo = pedidos[o].estado_codigo
                                  /\ estados[i].activo

\* C12, as stated: an order that is created gets as its status the value of
\* the parameter pedido.estado_inicial, or NUEVO when the parameter is unset.
C12_InitialFromParameter ==
    [][\A o \in PedidoIds :
          ~pedidos[o].existe /\ pedidos'[o].existe =>
              pedidos'[o].estado_codigo =
                  IF app_parametros = NULL THEN "NUEVO" ELSE app_parametros]_vars

\* C13: with two sessions interleaved, every commit that persists a status
\* update writes the committer's destination over whatever status the order
\* holds (last writer wins) and appends a history row whose origin is the
\* status the committer read when its request arrived; so two requests that
\* both read the status before either commits both succeed and leave two
\* rows with the same origin.
C13_LastWriterWins ==
    [][\A s \in Sesiones :
          RespondeOk(s) /\ ~tx[s].abortada =>
             LET o == req[s].id_pedido
             IN /\ pedidos'[o].estado_codigo = req[s].nuevo_estado
                /\ historial'[o] =
                      Append(historial[o], [origen |-> IdEstado(req[s].estado_actual),
                                            destino |-> IdEstado(req[s].nuevo_estado)])]_vars

\* C13, witness: an order has two history rows with the same origin and
\* different destinations, the second row's origin is not the status the
\* first row left, and the order holds the destination of the second row
C13_Witness ==
    \E o \in PedidoIds :
        /\ Len(historial[o]) = 2
        /\ historial[o][1].origen = historial[o][2].origen
        /\ historial[o][1].destino # historial[o][2].destino
        /\ historial[o][2].origen # historial[o][1].destino
        /\ IdEstado(pedidos[o].estado_codigo) = historial[o][2].destino

\* the rows of the pair, open or closed
FilasPar(par) == {i \in 1 .. Len(precios) : precios[i].par = par}

\* C14: with publications served one at a time, every publication that
\* commits leaves its own row as the last row of the table, carrying its pair
\* and its price, and after every step each pair that has rows has exactly
\* one row with a null validity end, the newest row of the pair.
C14_OneVigente ==
    [][/\ \A s \in Sesiones :
             pub[s].paso = "insertado" /\ pub'[s].paso = "libre"
                 /\ Len(precios') > Len(precios)
             => precios'[Len(precios')] =
                   [par |-> pub[s].par, precio_bruto |-> pub[s].precio_bruto,
                    abierta |-> TRUE]
       /\ \A par \in ParesPrecio :
             LET filas == {i \in 1 .. Len(precios') : precios'[i].par = par}
                 vigentes == {i \in filas : precios'[i].abierta}
             IN filas # {} =>
                   /\ Cardinality(vigentes) = 1
                   /\ \A i \in vigentes, j \in filas : j <= i]_vars

\* C14, witness: a pair has been published more than once and other rows
\* exist: its first row is closed and its newest row is the only open one
C14_Witness ==
    \E par \in ParesPrecio :
        /\ Cardinality(FilasPar(par)) >= 2
        /\ Cardinality(Vigentes(par)) = 1
        /\ \E i \in FilasPar(par) : ~precios[i].abierta

\* C15: with two sessions interleaved, a publication that commits closes
\* exactly the rows its closing UPDATE found still open and leaves every
\* other row as it is, so a row that another publication of the pair
\* committed in between stays open next to its own new row.
C15_ClosesOnlySeen ==
    [][\A s \in Sesiones :
          pub[s].paso = "insertado" /\ pub'[s].paso = "libre"
              /\ Len(precios') > Len(precios) =>
             /\ \A i \in 1 .. Len(precios) :
                   precios'[i].abierta = (precios[i].abierta /\ i \notin pub[s].cerradas)
             /\ pub[s].cerradas \subseteq pub[s].vistas
             /\ precios'[Len(precios')].abierta]_vars

\* C15, witness: two publications of a pair selected the same prior row for
\* closing and both inserted: the pair has a closed row and two open rows
C15_Witness ==
    \E par \in ParesPrecio :
        /\ Cardinality(Vigentes(par)) = 2
        /\ \E i \in FilasPar(par) : ~precios[i].abierta /\ \A j \in Vigentes(par) : i < j

\* C17: applying a rounding strategy to its own result gives that result
\* again, for PSICO_990, REDONDEO_100 and EXACTO (and for a code the function
\* does not know): _aplicar_redondeo(c, _aplicar_redondeo(c, x)) =
\* _aplicar_redondeo(c, x) for every price x.
C17_Idempotent == redondeo.paso = "dos" => redondeo.dos = redondeo.una

\* PSICO_990 has been applied twice to a price that it changed the first
\* time, one nearer to the thousand above than to the one below
C17_Witness ==
    /\ redondeo.paso = "dos"
    /\ redondeo.codigo = "PSICO_990"
    /\ redondeo.precio = 1600 * Escala
    /\ redondeo.una = 1990
    /\ redondeo.dos = 1990

\* the value _aplicar_redondeo must return for a price, stated without the
\* function: r is a whole number of pesos, precio a number of hundredths
Abs(n) == IF n < 0 THEN -n ELSE n

ValorRedondeo(codigo, precio, r) ==
    IF precio <= 0 THEN r = 0
    ELSE IF codigo = "PSICO_990"
         THEN \E miles \in 0 .. MaxPesos :
                 /\ miles * 1000 * Escala <= precio
                 /\ precio < (miles + 1) * 1000 * Escala
                 /\ r = 1000 * miles + 990
    ELSE IF codigo = "REDONDEO_100"
         THEN r % 100 = 0 /\ 2 * Abs(r * Escala - precio) <= 100 * Escala
    ELSE 2 * Abs(r * Escala - precio) <= Escala

\* C18: _aplicar_redondeo returns 0 for every non-positive price; for a
\* positive price it returns 1000 * floor(price / 1000) + 990 under PSICO_990,
\* a multiple of 100 nearest to the price under REDONDEO_100, and an integer
\* nearest to the price under EXACTO or any code it does not recognize.
C18_RoundingValues ==
    redondeo.paso # "libre" /\ redondeo.paso # "entrada" =>
        ValorRedondeo(redondeo.codigo, redondeo.precio, redondeo.una)

\* a price half-way between two multiples of 100 has been rounded under
\* REDONDEO_100, and went to the even one
C18_Witness ==
    /\ redondeo.paso = "una"
    /\ redondeo.codigo = "REDONDEO_100"
    /\ redondeo.precio = 250 * Escala
    /\ redondeo.una = 200

\* the active rules of the active policies of the channel, each with its
\* policy, and the order in which the claim has them tried
Candidatas(D) ==
    {<<p, r>> \in D.politicas \X D.reglas :
        /\ p.activo /\ (p.canal = D.canal \/ p.canal = "ANY")
        /\ r.activo /\ r.id_politica = p.id_politica}

ClaveOrden(x) == <<x[1].prioridad, x[1].id_politica, x[2].prioridad, x[2].id_regla>>

RECURSIVE MenorLex(_, _)
MenorLex(a, b) ==
    /\ a # << >>
    /\ \/ Head(a) < Head(b)
       \/ Head(a) = Head(b) /\ MenorLex(Tail(a), Tail(b))

AntesCandidata(x, y) == MenorLex(ClaveOrden(x), ClaveOrden(y))

\* the rule passes the filters and gives a positive rounded price
Resuelve(D, x) ==
    LET ev == EvaluarRegla(D, x[1], x[2])
    IN  ev.filtro = "pasa" /\ ev.final > 0

\* step i of the trail is about a rule or a policy that comes after x
PasoPosterior(D, paso, x) ==
    \/ /\ paso[1] \in {"regla", "regla descartada"}
       /\ \E y \in Candidatas(D) : y[2].id_regla = paso[2] /\ AntesCandidata(x, y)
    \/ /\ paso[1] \in {"politica", "sin regla aplicable"}
       /\ \E p \in D.politicas : p.id_politica = paso[2] /\ AntesPolitica(x[1], p)
    \/ paso[1] = "sin regla aplicable" /\ paso[2] = x[1].id_politica
    \/ paso[1] \in {"fallback_PTS", "sin regla ni fallback"}

\* C16: resolver_precio returns the result of the first rule, in the order
\* (policy priority, policy id, rule priority, rule id), all ascending, over
\* the active rules of the active policies whose channel is the requested
\* one or ANY, that passes the medication-type and cost-range filters and
\* gives a positive rounded price; no rule or policy after that one is
\* evaluated or appears in the step trail.
C16_FirstRuleWins ==
    resolucion.paso = "fin" =>
        LET D == resolucion
            info == D.info
            ganan == {x \in Candidatas(D) : Resuelve(D, x)}
        IN  \A x \in ganan :
                (\A y \in ganan \ {x} : AntesCandidata(x, y)) =>
                    /\ info.ok
                    /\ info.politica = Algun(x[1].id_politica)
                    /\ info.regla = Algun(x[2].id_regla)
                    /\ info.precio_bruto = EvaluarRegla(D, x[1], x[2]).final
                    /\ \A i \in 1 .. Len(info.pasos) :
                          ~PasoPosterior(D, info.pasos[i], x)
                    /\ info.pasos[Len(info.pasos)][1] = "regla"
                    /\ info.pasos[Len(info.pasos)][2] = x[2].id_regla

\* the rule of the second policy was returned although a rule of the
\* first policy, whose id is lower and whose priority number is higher,
\* resolves too; the trail names no rule of the first policy
C16_Witness ==
    /\ resolucion.paso = "fin"
    /\ resolucion.info.ok
    /\ resolucion.info.politica = Algun(2)
    /\ resolucion.info.regla = Algun(3)
    /\ \E x \in Candidatas(resolucion) :
          x[1].id_politica = 1 /\ Resuelve(resolucion, x)
    /\ \A i \in 1 .. Len(resolucion.info.pasos) :
          resolucion.info.pasos[i][1] = "regla" => resolucion.info.pasos[i][2] = 3

\* C19: whenever resolver_precio returns ok = true, by a rule or by the PTS
\* fallback, the gross price it returns is a positive integer; when nothing
\* gives a positive price it returns ok = false with the diagnostic trail.
C19_PositiveOrFailure ==
    resolucion.paso # "entrada" =>
        /\ resolucion.paso = "fin"
        /\ LET info == resolucion.info
           IN  /\ info.ok => info.precio_bruto \in Nat \ {0}
               /\ ~info.ok => /\ info.pasos # << >>
                              /\ info.pasos[Len(info.pasos)] = <<"sin regla ni fallback">>

\* the margin of the claim: the category override when there is one, else
\* the medication-type override, else the parameter pts_margen_default,
\* "0.08" when it is not set; Ninguno when that text is not a number
MargenClaim(D) ==
    IF D.margen_cat # Ninguno THEN D.margen_cat
    ELSE IF D.margen_tipo # Ninguno THEN D.margen_tipo
    ELSE IF D.parametros["pts_margen_default"] = NULL THEN Algun(8)
    ELSE Flotante(D.parametros["pts_margen_default"])

\* the strategy of the claim: the parameter pts_redondeo, EXACTO when unset
RedondeoClaim(D) ==
    IF D.parametros["pts_redondeo"] = NULL THEN "EXACTO"
    ELSE UpperEstrategia(D.parametros["pts_redondeo"])

\* no rule resolves, and the call has ended
SinRegla ==
    /\ resolucion.paso \in {"fin", "excepcion"}
    /\ \A x \in Candidatas(resolucion) : ~Resuelve(resolucion, x)

\* the call returned cost * (1 + m) rounded by the strategy of pts_redondeo
DevuelveFallback(D, m) ==
    /\ D.paso = "fin"
    /\ D.info.ok
    /\ D.info.regla = Ninguno
    /\ ValorRedondeo(RedondeoClaim(D), Valor(D.costo) * (100 + Valor(m)),
                     D.info.precio_bruto)
    /\ D.info.redondeo = RedondeoClaim(D)

\* the call failed and its trail starts with the cost base
FallaConCosto(D) ==
    /\ D.paso = "fin"
    /\ ~D.info.ok
    /\ D.info.costo_base = D.costo
    /\ D.info.pasos[1] = <<"costo_base", D.costo>>
    /\ D.info.pasos[Len(D.info.pasos)] = <<"sin regla ni fallback">>

\* C20: when no rule resolves, if the channel is PTS and the cost base is
\* known the call returns cost * (1 + m) rounded by pts_redondeo (default
\* EXACTO), m being the category margin override if there is one, else the
\* medication-type override, else pts_margen_default (default "0.08"); in
\* every other case (channel not PTS, or cost null) it fails with the trail
\* showing the cost base.
C20_Fallback ==
    SinRegla =>
        LET D == resolucion
        IN  IF D.canal = "PTS" /\ D.costo # Ninguno
            THEN MargenClaim(D) # Ninguno /\ DevuelveFallback(D, MargenClaim(D))
            ELSE FallaConCosto(D)

\* the steps of the trail left by the rules that were applied
PasosRegla(D) == {i \in 1 .. Len(D.info.pasos) : D.info.pasos[i][1] = "regla"}

ReglaDe(D, id_regla) == CHOOSE r \in D.reglas : r.id_regla = id_regla

\* the floor and the cap of the claim for a rule, in hundredths, Ninguno
\* when the guardrail does not apply
PisoClaim(D, rg) ==
    IF rg.margen_min_pct # Ninguno /\ CostoBase(D) # Ninguno
    THEN Algun(Valor(CostoBase(D)) * (100 + Valor(rg.margen_min_pct)))
    ELSE Ninguno

TopeClaim(D, rg) ==
    IF rg.tope_pct # Ninguno /\ PvpRef(D) # Ninguno
    THEN Algun(Valor(PvpRef(D)) * (100 + Valor(rg.tope_pct)))
    ELSE Ninguno

Max2(a, b) == IF a > b THEN a ELSE b
Min2(a, b) == IF a < b THEN a ELSE b

\* C21: for every rule that yields a candidate price, the guarded price is
\* the candidate raised to cost * (1 + min_margin / 100) when a minimum
\* margin is set and the cost base is known, then lowered to reference *
\* (1 + max_markup / 100) when a maximum markup is set and a reference price
\* is known; so whenever the cap applies the price passed to rounding never
\* exceeds the cap, even when the floor is higher than the cap.
C21_Guardrails ==
    resolucion.paso = "fin" =>
        \A i \in PasosRegla(resolucion) :
            LET D == resolucion
                paso == D.info.pasos[i]
                rg == ReglaDe(D, paso[2])
                calc == paso[4]
                guard == paso[5]
                piso == PisoClaim(D, rg)
                tope == TopeClaim(D, rg)
                subido == IF piso # Ninguno THEN Max2(Valor(calc), Valor(piso))
                          ELSE Valor(calc)
                bajado == IF tope # Ninguno THEN Min2(subido, Valor(tope)) ELSE subido
            IN  calc # Ninguno =>
                    /\ guard = Algun(bajado)
                    /\ tope # Ninguno => Valor(guard) <= Valor(tope)
                    /\ paso[6] = AplicarRedondeo(PolRedondeo(CHOOSE p \in D.politicas :
                                                    p.id_politica = rg.id_politica),
                                                 Valor(guard))

\* a rule whose floor (1200) is above its cap (999) was applied to a
\* candidate below the floor, and the cap was what went to rounding
C21_Witness ==
    /\ resolucion.paso = "fin"
    /\ \E i \in PasosRegla(resolucion) :
          LET rg == ReglaDe(resolucion, resolucion.info.pasos[i][2])
              piso == PisoClaim(resolucion, rg)
              tope == TopeClaim(resolucion, rg)
          IN  /\ piso # Ninguno /\ tope # Ninguno
              /\ Valor(piso) > Valor(tope)
              /\ resolucion.info.pasos[i][4] # Ninguno
              /\ Valor(resolucion.info.pasos[i][4]) < Valor(piso)
              /\ resolucion.info.pasos[i][5] = tope

\* C24: when the transition-table query fails, _next_states_for does not
\* fail the caller but returns every active status other than the current
\* one, and the request is accepted exactly when the requested code is an
\* active catalog status different from the current status.
C24_FallbackAccepts ==
    [][\A s \in Sesiones :
          (pc[s] = "libre" /\ pc'[s] # "libre" /\ req'[s].falla_trans) =>
              LET r == req'[s]
                  cur == EstadoActual(r.id_pedido)
                  activos == {estados[i].codigo : i \in {j \in EstadoIds :
                                 estados[j].activo /\ estados[j].codigo # cur}}
              IN  /\ resp'[s] # "error no controlado"
                  /\ pc'[s] = "upd" <=> r.nuevo_estado \in activos]_vars

\* C25: estados_param_post stores a new value of pedido.estado_inicial only
\* if the submitted code names a status that exists in the catalog and is
\* active; otherwise it rejects the request and leaves the parameter as it
\* was.
C25_ParameterActive ==
    [][app_parametros' # app_parametros =>
          \E i \in EstadoIds : /\ estados[i].codigo = app_parametros'
                               /\ estados[i].activo]_vars

\* the edges of the matrix that are active
Activas(t) == {p \in EstadoIds \X EstadoIds : t[p] = "activa"}

\* C29: after transiciones_save the set of active edges is exactly the set
\* of submitted checked pairs with origin # destination: every other
\* existing edge is deactivated and none is deleted, no edge with origin =
\* destination is active, and submitting the same selection again changes
\* nothing.
C29_SaveExact ==
    [][\A form \in MatricesAmplias :
          TransicionesSave(form) =>
              LET selected == {p \in form : p[1] # p[2]}
              IN  /\ Activas(transiciones') = selected
                  /\ \A p \in EstadoIds \X EstadoIds :
                        /\ transiciones[p] # "ausente" => transiciones'[p] # "ausente"
                        /\ p \notin selected /\ transiciones[p] # "ausente"
                              => transiciones'[p] = "inactiva"
                  /\ \A i \in EstadoIds : transiciones'[<<i, i>>] # "activa"
                  /\ Activas(transiciones) = selected => transiciones' = transiciones]_vars

\* a save has switched an edge off and kept another on: the first is still
\* a row of the table, and the diagonal cell has no row
C29_Witness ==
    /\ transiciones[<<1, 2>>] = "inactiva"
    /\ transiciones[<<2, 1>>] = "activa"
    /\ transiciones[<<2, 3>>] = "ausente"
    /\ transiciones[<<1, 1>>] = "ausente"

\* the lists the claim calls enabled: pts when recalcular_pts is set, pvp
\* when recalcular_pvp is set and the list is not skipped as MANUAL
HabilitadasClaim(R) ==
    {l \in {"pts", "pvp"} :
        \/ l = "pts" /\ R.recalcular_pts
        \/ l = "pvp" /\ R.recalcular_pvp
                     /\ ~(UpperModo(R.modo_pvp) = "MANUAL" /\ ~R.force_pvp)}

\* the entries of a list of the response for a product and a list
Entradas(lista, pid, l) ==
    {j \in 1 .. Len(lista) : lista[j].id_producto = pid /\ lista[j].lista = l}

\* C22: a bulk recalculation processes every product of its scope: it
\* answers with processed = the size of the scope and, for each product and
\* each enabled list, exactly one entry in publicados or in errores; the
\* failure of one product does not stop the others.
C22_EveryProduct ==
    recalc.paso = "fin" /\ ~FaltaId(recalc) /\ Alcance(recalc) # << >> =>
        /\ recalc.resp.status = 200
        /\ recalc.resp.processed = Len(Alcance(recalc))
        /\ \A i \in 1 .. Len(Alcance(recalc)), l \in HabilitadasClaim(recalc) :
              Cardinality(Entradas(recalc.resp.publicados, Alcance(recalc)[i], l))
              + Cardinality(Entradas(recalc.resp.errores, Alcance(recalc)[i], l)) = 1

\* the rows of a price table that belong to a list, with their ids
FilasLista(tabla, id_lista) ==
    {<<i, tabla[i]>> : i \in {j \in 1 .. Len(tabla) : tabla[j].par[2] = id_lista}}

PasoCarrier ==
    /\ resp_tr'.handler = "carrier"
    /\ resp_tr'.status # 404
    /\ resp_tr' # resp_tr \/ historial' # historial

\* C26: the carrier's _transition_if_allowed changes the status of an order
\* under exactly the conditions under which change_status accepts the
\* destination, and it never moves an order out of RECHAZADO_QF.
C26_CarrierSameGate ==
    [][PasoCarrier =>
          LET cur == EstadoActual(resp_tr'.id_pedido)
              acepta == Validar(resp_tr'.nuevo_estado, cur, FALSE) = "ok"
          IN  /\ resp_tr'.transicion <=> acepta
              /\ resp_tr'.transicion => Upper(cur) # RECHAZADO_QF]_vars

\* an assignment request has just been served
PasoAsignar ==
    /\ resp_tr'.handler = "asignar"
    /\ resp_tr' # resp_tr \/ asignaciones' # asignaciones

\* C27: with the assignment requests served one at a time, an order has at
\* most one active assignment, which is the one created by the latest
\* request that succeeded; a request with an unknown or inactive carrier
\* changes no assignment.
C27_OneActiveAssignment ==
    [][/\ \A o \in IdsTransporte : Cardinality(AsigVigentes(asignaciones', o)) <= 1
       /\ PasoAsignar /\ resp_tr'.status = 303 =>
             /\ Len(asignaciones') = Len(asignaciones) + 1
             /\ AsigVigentes(asignaciones', resp_tr'.id_pedido) = {Len(asignaciones')}
       /\ PasoAsignar /\ resp_tr'.status = 400 => asignaciones' = asignaciones]_vars

\* C28: with the requests served one at a time, after any sequence of
\* change_status requests and carrier transitions the history rows of an
\* order form a chain: the origin of each row is the destination of the row
\* before it, and the destination of the latest row is the status of the
\* order.
C28_HistoryChain ==
    \A o \in PedidoIds :
        LET h == historial[o]
        IN  /\ \A i \in 2 .. Len(h) : h[i].origen = h[i - 1].destino
            /\ Len(h) > 0 => /\ h[Len(h)].destino # NoId
                             /\ estados[h[Len(h)].destino].codigo = pedidos[o].estado_codigo

\* an administrator moved order 1 and the carrier then delivered it: two
\* rows, the second written by the carrier from the destination of the first
C28_Witness ==
    /\ Len(historial[1]) = 2
    /\ resp[1] = "ok"
    /\ resp_tr.handler = "carrier" /\ resp_tr.id_pedido = 1 /\ resp_tr.transicion
    /\ historial[1][1].origen = 1
    /\ historial[1][2].origen = historial[1][1].destino
    /\ historial[1][2].destino = 3
    /\ pedidos[1].estado_codigo = "ENTREGADO"

====
